---- MODULE Spec2Model ----
(***************************************************************************)
(* Routing core of the network layer: the edge table, the graph, the       *)
(* reachability map and the component store owned by Inner                 *)
(* (routing/graph_with_cache.rs), the published snapshot of                *)
(* GraphWithCache, and the add_edges entry point of NetworkState           *)
(* (peer_manager/network_state/routing.rs).                                *)
(*                                                                         *)
(* The wall clock (Utc) and the monotonic clock (Instant) advance          *)
(* together, in ticks.                                                     *)
(***************************************************************************)
EXTENDS Integers, Sequences, FiniteSets, TLC

\* ------------------------------------------------------------------ bounds
NumPeers == 3
MaxNonce == 2
MaxTime == 2
MaxBatch == 2
MaxLen == 3

\* ------------------------------------------------------------------ Config
\* Config::prune_unreachable_peers_after and the duration of
\* Config::prune_edges_after when it is set, in clock ticks.
prune_unreachable_peers_after == 1
prune_edges_after == 1
\* NetworkState config.skip_tombstones, and the time NetworkState was created at.
skip_tombstones == 1
state_created_at == 0

None == -1

Peers == 1..NumPeers
\* Config::node_id, the local node.
node_id == 1
\* EdgeKey = (PeerId, PeerId) with key.0 < key.1.
EdgeKey == {k \in Peers \X Peers : k[1] < k[2]}
Time == 0..MaxTime

VARIABLES
    config,             \* Config: prune_unreachable_peers_after, prune_edges_after
    edges,              \* Inner::edges
    graph,              \* Inner::graph (adjacency of routing::Graph)
    peer_reachable_at,  \* Inner::peer_reachable_at
    store,              \* Inner::store (component store)
    snapshot,           \* GraphWithCache::edges, the published snapshot
    unreliable_peers,   \* GraphWithCache::unreliable_peers
    now,                \* the clock
    held,               \* history: largest nonce Inner::edges has held per key
    spilled,            \* history: the edges evicted with a peer since an edge
                        \* of the peer was last delivered
    call,               \* the argument of the function applied last
    ret,                \* what it returned
    registers,          \* Registers of the VM: register id -> the bytes it holds
    fees                \* the fees the last call asked its gas_counter to pay

vars == <<config, edges, graph, peer_reachable_at, store, snapshot,
          unreliable_peers, now, held, spilled, call, ret, registers, fees>>

\* -------------------------------------------------------------- Edge model
\* Edge::edge_type: odd nonce = Active, even nonce = Removed.
edge_type(e) == IF e.nonce % 2 = 1 THEN "Active" ELSE "Removed"

\* Edge::verify: the signatures are checked; a tampered edge carries valid = FALSE.
verify_edge(e) == e.valid

\* Edge::is_edge_older_than
is_edge_older_than(e, t) == e.created_at < t

\* Edge::next
next(e) == e.nonce + 2

\* Order on EdgeKey (derived Ord of the pair).
KeyLess(a, b) == a[1] < b[1] \/ (a[1] = b[1] /\ a[2] < b[2])

RECURSIVE KeysDescending(_)
KeysDescending(ks) ==
    IF ks = {} THEN <<>>
    ELSE LET m == CHOOSE k \in ks : \A j \in ks : j = k \/ KeyLess(j, k)
         IN  <<m>> \o KeysDescending(ks \ {m})

\* Edge::deduplicate: one edge per key, the one with the largest nonce (the
\* first of the list among equals), in descending key order.
deduplicate(list) ==
    LET ks == {list[i].key : i \in DOMAIN list}
        best(k) ==
            LET idx == {i \in DOMAIN list : list[i].key = k}
                top == CHOOSE i \in idx :
                          \A j \in idx : \/ list[j].nonce < list[i].nonce
                                         \/ (list[j].nonce = list[i].nonce /\ i <= j)
            IN  list[top]
        order == KeysDescending(ks)
    IN  [i \in DOMAIN order |-> best(order[i])]

\* ------------------------------------------------------------ routing::Graph
\* Graph::new
EmptyGraph == [p \in Peers |-> {}]

\* Graph::add_edge (idempotent)
add_edge(g, a, b) == [g EXCEPT ![a] = @ \cup {b}, ![b] = @ \cup {a}]

\* Graph::remove_edge
graph_remove_edge(g, a, b) == [g EXCEPT ![a] = @ \ {b}, ![b] = @ \ {a}]

\* The edge keys present in the graph.
GraphKeys(g) == {k \in (DOMAIN g) \X (DOMAIN g) : k[1] < k[2] /\ k[2] \in g[k[1]]}

RECURSIVE SetToSeq(_)
SetToSeq(S) ==
    IF S = {} THEN <<>>
    ELSE LET m == CHOOSE x \in S : \A y \in S : x <= y
         IN  <<m>> \o SetToSeq(S \ {m})

\* The BFS loop of Graph::calculate_distance: distance[] is the BFS depth,
\* routes[] the set of neighbours of the source on a shortest path.  A peer
\* of unreliable is given a distance and routes but is never expanded.
RECURSIVE bfs(_, _, _, _, _)
bfs(g, unreliable, queue, distance, routes) ==
    IF queue = <<>> THEN [distance |-> distance, routes |-> routes]
    ELSE LET cur == Head(queue)
             d == distance[cur]
             fresh == {n \in g[cur] : distance[n] = None}
             distance2 == [n \in DOMAIN g |-> IF n \in fresh THEN d + 1 ELSE distance[n]]
             routes2 == [n \in DOMAIN g |->
                            IF n \in g[cur] /\ distance2[n] = d + 1
                            THEN routes[n] \cup routes[cur] ELSE routes[n]]
         IN  bfs(g, unreliable, Tail(queue) \o SetToSeq(fresh \ unreliable),
                 distance2, routes2)

\* Graph::calculate_distance: the next-hop table, destination -> neighbours
\* of the source on a shortest path to it.
calculate_distance(g, source, unreliable) ==
    LET distance0 == [n \in DOMAIN g |->
                         IF n = source THEN 0 ELSE IF n \in g[source] THEN 1 ELSE None]
        routes0 == [n \in DOMAIN g |-> IF n \in g[source] THEN {n} ELSE {}]
        r == bfs(g, unreliable, SetToSeq(g[source] \ unreliable), distance0, routes0)
        dests == {n \in DOMAIN g : n # source /\ r.distance[n] # None /\ r.routes[n] # {}}
    IN  [n \in dests |-> r.routes[n]]

\* ------------------------------------------------------------ store::Store
\* A pop_component that finds nothing.
pop_component_edges_none(st, peer) == {}

\* Store::pop_component: what is stored under the peer (nothing when missing).
pop_component_edges(st, peer) == st[peer]
pop_component_store(st, peer) == [st EXCEPT ![peer] = {}]

\* The component written under one of its peers only.
push_component_under_one(st, peers, es) ==
    [p \in DOMAIN st |->
        IF p \in peers /\ (\A q \in peers : p <= q) THEN es ELSE st[p]]

\* Store::push_component: the component is written under every peer of it.
push_component(st, peers, es) == [p \in DOMAIN st |-> IF p \in peers THEN es ELSE st[p]]

\* ---------------------------------------------------------------- Inner
\* has with a strict comparison of the nonces.
has_strictly_newer(set, edge) == \E x \in set : x.key = edge.key /\ x.nonce > edge.nonce

\* has that finds only an entry of the very same nonce.
has_same_nonce(set, edge) == \E x \in set : x.key = edge.key /\ x.nonce = edge.nonce

\* has(set, edge)
has(set, edge) == \E x \in set : x.key = edge.key /\ x.nonce >= edge.nonce

\* An insert that keeps the entry the key had.
edges_insert_beside(set, edge) == set \cup {edge}

\* im::HashMap::insert on the edge table
edges_insert(set, edge) == {x \in set : x.key # edge.key} \cup {edge}

\* update_edge that adds the edge to the graph whatever its state.
update_edge_always_active(inner, cfg, t, edge) ==
    IF \E x \in inner.edges : x.key = edge.key /\ x.nonce >= edge.nonce
    THEN [inner |-> inner, added |-> FALSE]
    ELSE IF cfg.prune_edges_after # None
            /\ is_edge_older_than(edge, t - cfg.prune_edges_after)
    THEN [inner |-> inner, added |-> FALSE]
    ELSE [inner |-> [inner EXCEPT
                        !.graph = add_edge(inner.graph, edge.key[1], edge.key[2]),
                        !.edges = {x \in inner.edges : x.key # edge.key} \cup {edge}],
          added |-> TRUE]

\* update_edge without the age filter.
update_edge_any_age(inner, cfg, t, edge) ==
    IF has(inner.edges, edge) THEN [inner |-> inner, added |-> FALSE]
    ELSE [inner |-> [inner EXCEPT
                        !.graph = IF edge_type(edge) = "Active"
                                  THEN add_edge(inner.graph, edge.key[1], edge.key[2])
                                  ELSE graph_remove_edge(inner.graph, edge.key[1],
                                                         edge.key[2]),
                        !.edges = edges_insert(inner.edges, edge)],
          added |-> TRUE]

\* Inner::update_edge; .added is the returned bool.
update_edge(inner, cfg, t, edge) ==
    IF has(inner.edges, edge) THEN [inner |-> inner, added |-> FALSE]
    ELSE IF cfg.prune_edges_after # None
            /\ is_edge_older_than(edge, t - cfg.prune_edges_after)
    THEN [inner |-> inner, added |-> FALSE]
    ELSE LET key == edge.key
             g == IF edge_type(edge) = "Active"
                  THEN add_edge(inner.graph, key[1], key[2])
                  ELSE graph_remove_edge(inner.graph, key[1], key[2])
         IN  [inner |-> [inner EXCEPT !.graph = g,
                                      !.edges = edges_insert(inner.edges, edge)],
              added |-> TRUE]

\* Inner::remove_edge
remove_edge(inner, key) ==
    IF \E x \in inner.edges : x.key = key
    THEN [inner EXCEPT !.edges = {x \in inner.edges : x.key # key},
                       !.graph = graph_remove_edge(inner.graph, key[1], key[2])]
    ELSE inner

RECURSIVE remove_edges(_, _)
remove_edges(inner, ks) ==
    IF ks = {} THEN inner
    ELSE LET k == CHOOSE k \in ks : TRUE
         IN  remove_edges(remove_edge(inner, k), ks \ {k})

\* The edges with both endpoints in peers.
enclosed_edges(set, peers) == {e \in set : e.key[1] \in peers /\ e.key[2] \in peers}

\* The edges with an endpoint in peers.
adjacent_edges(set, peers) == {e \in set : e.key[1] \in peers \/ e.key[2] \in peers}

\* Inner::remove_adjacent_edges; .edges is the returned list.
remove_adjacent_edges(inner, peers) ==
    [inner |-> remove_edges(inner, {e.key : e \in adjacent_edges(inner.edges, peers)}),
     edges |-> adjacent_edges(inner.edges, peers)]

\* No edge is pruned for its age.
prune_old_edges_never(inner, prune_edges_older_than) == inner

\* Inner::prune_old_edges
prune_old_edges(inner, prune_edges_older_than) ==
    remove_edges(inner,
        {e.key : e \in {x \in inner.edges : is_edge_older_than(x, prune_edges_older_than)}})

RECURSIVE update_edges(_, _, _, _)
update_edges(inner, cfg, t, es) ==
    IF es = {} THEN inner
    ELSE LET e == CHOOSE e \in es : TRUE
         IN  update_edges(update_edge(inner, cfg, t, e).inner, cfg, t, es \ {e})

\* No component is ever loaded.
load_component_skipped(inner, cfg, t, peer_id) == inner

\* Inner::load_component
load_component(inner, cfg, t, peer_id) ==
    IF peer_id = node_id \/ peer_id \in DOMAIN inner.peer_reachable_at THEN inner
    ELSE update_edges(
            [inner EXCEPT !.store = pop_component_store(inner.store, peer_id)],
            cfg, t, pop_component_edges(inner.store, peer_id))

\* Only the peers without an entry in R are selected.
unreachable_peers_missing(inner, unreachable_since) ==
    {p \in UNION {{e.key[1], e.key[2]} : e \in inner.edges} :
        p \notin DOMAIN inner.peer_reachable_at}

\* The peers Inner::prune_unreachable_peers selects: the endpoints of the
\* edges held that were not reachable since unreachable_since.
unreachable_peers(inner, unreachable_since) ==
    {p \in UNION {{e.key[1], e.key[2]} : e \in inner.edges} :
        IF p \in DOMAIN inner.peer_reachable_at
        THEN inner.peer_reachable_at[p] < unreachable_since ELSE TRUE}

\* The pruned edges dropped instead of written to the store.
store_pruned_dropped(rm, peers) == rm.inner

\* The write of the pruned edges (rm: what remove_adjacent_edges returned).
store_pruned(rm, peers) ==
    [rm.inner EXCEPT !.store = push_component(rm.inner.store, peers, rm.edges)]

\* Inner::prune_unreachable_peers, once the peers are selected.
prune_peers(inner, peers) ==
    IF peers = {} THEN inner
    ELSE store_pruned(
            remove_adjacent_edges(
                [inner EXCEPT !.peer_reachable_at =
                    [p \in (DOMAIN inner.peer_reachable_at) \ peers |->
                        inner.peer_reachable_at[p]]],
                peers),
            peers)

\* The eviction of the peers whose entry in R is too old only; a peer without
\* an entry is kept.
prune_unreachable_peers_stamped(inner, unreachable_since) ==
    prune_peers(inner,
        {p \in unreachable_peers(inner, unreachable_since) :
            p \in DOMAIN inner.peer_reachable_at})

\* Inner::prune_unreachable_peers
prune_unreachable_peers(inner, unreachable_since) ==
    prune_peers(inner, unreachable_peers(inner, unreachable_since))

RECURSIVE load_components(_, _, _, _)
\* The loop of Inner::update_routing_table that loads the components of both
\* endpoints of every incoming edge.
load_components(inner, cfg, t, list) ==
    IF list = <<>> THEN inner
    ELSE load_components(
            load_component(load_component(inner, cfg, t, Head(list).key[1]),
                           cfg, t, Head(list).key[2]),
            cfg, t, Tail(list))

\* One step of edges.retain(|e| self.update_edge(now, e.clone())): u is what
\* update_edge returned for e, acc the table and the edges retained so far.
retain_step(acc, u, e) ==
    [inner |-> u.inner, edges |-> IF u.added THEN Append(acc.edges, e) ELSE acc.edges]

RECURSIVE retain_updated(_, _, _, _)
\* edges.retain(|e| self.update_edge(now, e.clone())); .edges is what is retained.
retain_updated(acc, cfg, t, list) ==
    IF list = <<>> THEN acc
    ELSE retain_updated(
            retain_step(acc, update_edge(acc.inner, cfg, t, Head(list)), Head(list)),
            cfg, t, Tail(list))

\* The age pruning step of Inner::update_routing_table.
prune_old(inner, cfg, t) ==
    IF cfg.prune_edges_after # None
    THEN prune_old_edges(inner, t - cfg.prune_edges_after)
    ELSE inner

\* Only the local node is stamped.
refresh_reachable_local(inner, next_hops, t) ==
    [inner EXCEPT !.peer_reachable_at =
        [p \in (DOMAIN inner.peer_reachable_at) \cup {node_id} |->
            IF p = node_id THEN t ELSE inner.peer_reachable_at[p]]]

\* The insert of peer_reachable_at for the local node and every key of next_hops.
refresh_reachable(inner, next_hops, t) ==
    [inner EXCEPT !.peer_reachable_at =
        [p \in (DOMAIN inner.peer_reachable_at) \cup {node_id} \cup (DOMAIN next_hops) |->
            IF p = node_id \/ p \in DOMAIN next_hops THEN t
            ELSE inner.peer_reachable_at[p]]]

\* The pass with the eviction made before the reachable peers are stamped.
update_reachable_evict_first(loaded, applied, pruned, next_hops, cfg, t) ==
    [inner |-> refresh_reachable(
                   prune_unreachable_peers(pruned, t - cfg.prune_unreachable_peers_after),
                   next_hops, t),
     edges |-> applied,
     next_hops |-> next_hops,
     loaded |-> loaded,
     at_bfs |-> pruned.edges,
     pruned_peers |-> unreachable_peers(pruned, t - cfg.prune_unreachable_peers_after)]

\* Inner::update_routing_table from the computation of next_hops on.  Besides
\* the returned (edges, next_hops) the record keeps the edge table as it was
\* after the components were loaded (.loaded), when the next hops were
\* computed (.at_bfs), and what the pass pruned (.pruned_peers).
update_reachable(loaded, applied, pruned, next_hops, cfg, t) ==
    [inner |-> prune_unreachable_peers(refresh_reachable(pruned, next_hops, t),
                                       t - cfg.prune_unreachable_peers_after),
     edges |-> applied,
     next_hops |-> next_hops,
     loaded |-> loaded,
     at_bfs |-> pruned.edges,
     pruned_peers |-> unreachable_peers(refresh_reachable(pruned, next_hops, t),
                                        t - cfg.prune_unreachable_peers_after)]

\* The next hops computed with every peer taken as reliable.
update_pruned_all_reliable(loaded, applied, pruned, cfg, t, unreliable) ==
    update_reachable(loaded, applied, pruned,
                     calculate_distance(pruned.graph, node_id, {}), cfg, t)

\* Inner::update_routing_table from the age pruning on.
update_pruned(loaded, applied, pruned, cfg, t, unreliable) ==
    update_reachable(loaded, applied, pruned,
                     calculate_distance(pruned.graph, node_id, unreliable), cfg, t)

\* Inner::update_routing_table from edges.retain on.
update_retained(loaded, upd, cfg, t, unreliable) ==
    update_pruned(loaded, upd.edges, prune_old(upd.inner, cfg, t), cfg, t, unreliable)

\* The next hops computed before the incoming edges are applied.
update_loaded_hops_first(loaded, cfg, t, list, unreliable) ==
    [update_retained(loaded.edges,
                     retain_updated([inner |-> loaded, edges |-> <<>>], cfg, t, list),
                     cfg, t, unreliable)
        EXCEPT !.next_hops = calculate_distance(loaded.graph, node_id, unreliable)]

\* Inner::update_routing_table once the components are loaded.
update_loaded(loaded, cfg, t, list, unreliable) ==
    update_retained(loaded.edges,
                    retain_updated([inner |-> loaded, edges |-> <<>>], cfg, t, list),
                    cfg, t, unreliable)

\* The pass from the age pruning on, given the table after the components
\* were loaded and the list applied before that.
update_loaded_late(loaded, applied, cfg, t, unreliable) ==
    update_retained(loaded.edges, [inner |-> loaded, edges |-> applied],
                    cfg, t, unreliable)

update_applied_first(upd, cfg, t, list, unreliable) ==
    update_loaded_late(load_components(upd.inner, cfg, t, list), upd.edges,
                       cfg, t, unreliable)

\* update_routing_table that applies the incoming edges before it loads the
\* components of their endpoints.
update_routing_table_load_last(inner, cfg, t, list, unreliable) ==
    update_applied_first(retain_updated([inner |-> inner, edges |-> <<>>], cfg, t, list),
                         cfg, t, list, unreliable)

\* Inner::update_routing_table
update_routing_table(inner, cfg, t, list, unreliable) ==
    update_loaded(load_components(inner, cfg, t, list), cfg, t, list, unreliable)

\* ------------------------------------------------------------ GraphWithCache
\* concurrency::rayon::try_map with Edge::verify: the edges that verify, and
\* whether all of them did.
try_map_verify(list) ==
    [edges |-> SelectSeq(list, verify_edge),
     ok |-> \A i \in DOMAIN list : verify_edge(list[i])]

\* A retain that drops nothing.
retain_any(old, list) == list

\* The edges of the list that the snapshot does not dominate.
retain_new(old, list) == SelectSeq(list, LAMBDA x : ~has(old, x))

\* verify without the deduplication of the edges.
verify_all(old, list) == try_map_verify(retain_new(old, list))

\* GraphWithCache::verify
verify(old, list) == try_map_verify(retain_new(old, deduplicate(list)))

\* ------------------------------------------------------------- NetworkState
\* NetworkState::broadcast_routing_table_update: the edges of the message
\* sent to every ready connection, or None when nothing is sent.
broadcast_routing_table_update(list) ==
    IF list = <<>> THEN <<>> ELSE deduplicate(list)

\* No tombstone is ever sent.
skip_tombstones_always(cfg, t, list) ==
    SelectSeq(list, LAMBDA e : edge_type(e) = "Active")

\* The tombstones are sent whatever the time is.
skip_tombstones_never(cfg, t, list) == list

\* The edges of add_edges that are left to send: within skip_tombstones of
\* the creation of NetworkState the Active ones only.
skip_tombstones_retain(cfg, t, list) ==
    IF cfg.skip_tombstones # None /\ t < state_created_at + cfg.skip_tombstones
    THEN SelectSeq(list, LAMBDA e : edge_type(e) = "Active")
    ELSE list

\* NetworkState::add_edges, the call of the demultiplexer: u is what the
\* update of the graph returned; .edges is what it applied, .event the
\* edges of Event::EdgesAdded and .broadcast the edges sent to the peers.
add_edges_sent(ok, u, sent) ==
    [inner |-> u.inner, snapshot |-> u.inner.edges,
     result |-> IF ok THEN "Ok" ELSE "InvalidEdge",
     updated |-> TRUE, edges |-> u.edges, next_hops |-> u.next_hops,
     event |-> sent,
     broadcast |-> broadcast_routing_table_update(sent),
     loaded |-> u.loaded, at_bfs |-> u.at_bfs, pruned_peers |-> u.pruned_peers]

add_edges_update(ok, cfg, t, u) ==
    add_edges_sent(ok, u, skip_tombstones_retain(cfg, t, u.edges))

\* add_edges that returns the error before it updates the graph.
add_edges_error_first(inner, old, cfg, t, v, unreliable) ==
    IF Len(v.edges) = 0 \/ ~v.ok
    THEN [inner |-> inner, snapshot |-> old,
          result |-> IF v.ok THEN "Ok" ELSE "InvalidEdge",
          updated |-> FALSE, edges |-> <<>>, next_hops |-> <<>>,
          event |-> <<>>, broadcast |-> <<>>,
          loaded |-> inner.edges, at_bfs |-> inner.edges, pruned_peers |-> {}]
    ELSE add_edges_update(v.ok, cfg, t,
                          update_routing_table(inner, cfg, t, v.edges, unreliable))

\* NetworkState::add_edges from the verdict v of verify on.
add_edges_verified(inner, old, cfg, t, v, unreliable) ==
    IF Len(v.edges) = 0
    THEN [inner |-> inner, snapshot |-> old,
          result |-> IF v.ok THEN "Ok" ELSE "InvalidEdge",
          updated |-> FALSE, edges |-> <<>>, next_hops |-> <<>>,
          event |-> <<>>, broadcast |-> <<>>,
          loaded |-> inner.edges, at_bfs |-> inner.edges, pruned_peers |-> {}]
    ELSE add_edges_update(v.ok, cfg, t,
                          update_routing_table(inner, cfg, t, v.edges, unreliable))

\* NetworkState::add_edges as a function of the state it starts from.
add_edges(inner, old, cfg, t, list, unreliable) ==
    add_edges_verified(inner, old, cfg, t, verify(old, list), unreliable)

\* ------------------------------------------------------------------ state
Inner == [edges |-> edges, graph |-> graph,
          peer_reachable_at |-> peer_reachable_at, store |-> store]

\* The edges a peer can send at time t: any key, any nonce, validly signed or
\* tampered; created_at is stamped when the edge is first seen.
IncomingEdges(t) ==
    [key : EdgeKey, nonce : 1..MaxNonce, valid : BOOLEAN, created_at : {t}]

RECURSIVE AscendingSeqs(_, _)
\* The lists of at most n edges of S with strictly ascending keys.
AscendingSeqs(S, n) ==
    IF n = 0 THEN {<<>>}
    ELSE LET shorter == AscendingSeqs(S, n - 1)
             longest == {r \in shorter : Len(r) = n - 1}
             after(q) == {x \in S : q = <<>> \/ KeyLess(q[Len(q)].key, x.key)}
         IN  shorter \cup UNION {{Append(q, x) : x \in after(q)} : q \in longest}

\* The batches add_edges is called with.  GraphWithCache::verify first
\* deduplicates the batch, which also orders it by key, so a batch that
\* repeats a key or lists the keys in another order acts as one of these.
Batches(t) == AscendingSeqs(IncomingEdges(t), MaxBatch)

MaxOf(a, b) == IF a >= b THEN a ELSE b

\* The largest nonce the edge table has held for each key.
Held(h, es) ==
    [k \in DOMAIN h |->
        IF \E x \in es : x.key = k
        THEN MaxOf(h[k], (CHOOSE x \in es : x.key = k).nonce) ELSE h[k]]

Configs ==
    [prune_unreachable_peers_after : {prune_unreachable_peers_after},
     prune_edges_after : {None, prune_edges_after},
     skip_tombstones : {skip_tombstones}]

\* GraphWithCache::new
Init ==
    /\ config \in Configs
    /\ registers = <<>>
    /\ fees = <<>>
    /\ edges = {}
    /\ graph = EmptyGraph
    /\ peer_reachable_at = <<>>
    /\ store = [p \in Peers |-> {}]
    /\ snapshot = {}
    /\ unreliable_peers = {}
    /\ now = 0
    /\ held = [k \in EdgeKey |-> 0]
    /\ spilled = [p \in Peers |-> {}]
    /\ call = <<>>
    /\ ret = <<>>

\* The state after an operation that left Inner as inner and published published.
Becomes(inner, published) ==
    /\ edges' = inner.edges
    /\ graph' = inner.graph
    /\ peer_reachable_at' = inner.peer_reachable_at
    /\ store' = inner.store
    /\ snapshot' = published
    /\ UNCHANGED <<fees, registers, config, unreliable_peers, now>>

AddEdgesReturns(r) == Becomes(r.inner, r.snapshot)

\* NetworkState::add_edges called with a batch of edges received from a peer.
AddEdgesCall ==
    \E list \in Batches(now) :
        AddEdgesReturns(add_edges(Inner, snapshot, config, now, list, unreliable_peers))

UpdateRoutingTableReturns(u) == Becomes(u.inner, u.inner.edges)

\* GraphWithCache::update_routing_table driven by the periodic trigger, with
\* no new edges: the pass, then the store of the new snapshot.
UpdateRoutingTableCall ==
    UpdateRoutingTableReturns(
        update_routing_table(Inner, config, now, <<>>, unreliable_peers))

\* The clock advances.
ClockAdvance ==
    /\ now < MaxTime
    /\ now' = now + 1
    /\ UNCHANGED <<fees, registers, config, edges, graph, peer_reachable_at, store, snapshot,
                   unreliable_peers>>

AddEdges == AddEdgesCall /\ UNCHANGED <<held, spilled, call, ret>>
UpdateRoutingTable == UpdateRoutingTableCall /\ UNCHANGED <<held, spilled, call, ret>>
Tick == ClockAdvance /\ UNCHANGED <<held, spilled, call, ret>>

Next == AddEdges \/ UpdateRoutingTable \/ Tick

Spec == Init /\ [][Next]_vars

\* The same behaviours, with the history of the nonces held kept in held.
RecordHeld == held' = Held(held, edges') /\ UNCHANGED <<spilled, call, ret>>
AddEdgesHeld == AddEdgesCall /\ RecordHeld
UpdateRoutingTableHeld == UpdateRoutingTableCall /\ RecordHeld
TickHeld == ClockAdvance /\ RecordHeld

NextHistory == AddEdgesHeld \/ UpdateRoutingTableHeld \/ TickHeld

SpecHistory == Init /\ [][NextHistory]_vars

\* The same behaviours, with the history of the evictions kept in spilled.
Endpoints(list) == UNION {{list[i].key[1], list[i].key[2]} : i \in DOMAIN list}

\* spilled after a pass that was delivered edges of the peers of delivered
\* and evicted the peers of pruned with the edges of component.
Spilled(sp, delivered, pruned, component) ==
    [p \in DOMAIN sp |->
        (IF p \in delivered THEN {} ELSE sp[p])
            \cup (IF p \in pruned THEN component ELSE {})]

AddEdgesSpilled(v, r) ==
    /\ AddEdgesReturns(r)
    /\ spilled' = Spilled(spilled, IF r.updated THEN Endpoints(v.edges) ELSE {},
                          r.pruned_peers, adjacent_edges(r.at_bfs, r.pruned_peers))
    /\ UNCHANGED <<held, call, ret>>

AddEdgesSpill ==
    \E list \in Batches(now) :
        AddEdgesSpilled(verify(snapshot, list),
                        add_edges(Inner, snapshot, config, now, list, unreliable_peers))

UpdateRoutingTableSpilled(u) ==
    /\ UpdateRoutingTableReturns(u)
    /\ spilled' = Spilled(spilled, {}, u.pruned_peers,
                          adjacent_edges(u.at_bfs, u.pruned_peers))
    /\ UNCHANGED <<held, call, ret>>

UpdateRoutingTableSpill ==
    UpdateRoutingTableSpilled(
        update_routing_table(Inner, config, now, <<>>, unreliable_peers))

TickSpill == ClockAdvance /\ UNCHANGED <<held, spilled, call, ret>>

NextSpill == AddEdgesSpill \/ UpdateRoutingTableSpill \/ TickSpill

SpecSpill == Init /\ [][NextSpill]_vars

\* ------------------------------------------------------- verify, on its own
\* The edges a peer can send: any key and nonce, signed well or not.
SentEdges == [key : EdgeKey, nonce : 1..MaxNonce, valid : BOOLEAN, created_at : {0}]

\* The snapshots: valid edges, one per key at most.
Snapshots ==
    {S \in SUBSET {e \in SentEdges : e.valid} :
        \A e \in S : \A x \in S : x.key = e.key => x = e}

SentLists == UNION {[1..n -> SentEdges] : n \in 0..MaxLen}

\* verify is about to be called with the snapshot call.old and the edges call.list.
InitVerify ==
    /\ config = [prune_unreachable_peers_after |-> prune_unreachable_peers_after,
                 prune_edges_after |-> None, skip_tombstones |-> skip_tombstones]
    /\ registers = <<>>
    /\ fees = <<>>
    /\ edges = {}
    /\ graph = EmptyGraph
    /\ peer_reachable_at = <<>>
    /\ store = [p \in Peers |-> {}]
    /\ snapshot = {}
    /\ unreliable_peers = {}
    /\ now = 0
    /\ held = [k \in EdgeKey |-> 0]
    /\ spilled = [p \in Peers |-> {}]
    /\ call \in [old : Snapshots, list : SentLists]
    /\ ret = <<>>

\* GraphWithCache::verify returns.
Verify ==
    /\ ret = <<>>
    /\ ret' = verify(call.old, call.list)
    /\ UNCHANGED <<fees, registers, config, edges, graph, peer_reachable_at, store, snapshot,
                   unreliable_peers, now, held, spilled, call>>

SpecVerify == InitVerify /\ [][Verify]_vars

\* ------------------------------------------------- the next hops of a pass
GraphPeers == 1..(NumPeers + 1)
GraphEdgeKey == {k \in GraphPeers \X GraphPeers : k[1] < k[2]}
GraphEdges == [key : GraphEdgeKey, nonce : 1..MaxNonce, valid : {TRUE}, created_at : {0}]
NoGraph == [p \in GraphPeers |-> {}]

RECURSIVE Connect(_, _)
\* The graph g with the edges of the keys ks added.
Connect(g, ks) ==
    IF ks = {} THEN g
    ELSE LET k == CHOOSE k \in ks : TRUE
         IN  Connect(add_edge(g, k[1], k[2]), ks \ {k})

\* GraphWithCache::new in a network of GraphPeers, and set_unreliable_peers
\* called once with any set of the other peers.
InitGraph ==
    /\ config = [prune_unreachable_peers_after |-> prune_unreachable_peers_after,
                 prune_edges_after |-> None, skip_tombstones |-> skip_tombstones]
    /\ registers = <<>>
    /\ fees = <<>>
    /\ edges = {}
    /\ graph = NoGraph
    /\ peer_reachable_at = <<>>
    /\ store = [p \in GraphPeers |-> {}]
    /\ snapshot = {}
    /\ unreliable_peers \in SUBSET (GraphPeers \ {node_id})
    /\ now = 0
    /\ held = [k \in EdgeKey |-> 0]
    /\ spilled = [p \in Peers |-> {}]
    /\ call = <<>>
    /\ ret = <<>>

\* A pass has returned u: ret keeps its next hops, the graph they were
\* computed on and the unreliable peers they were computed with.
PassReturns(u) ==
    /\ Becomes(u.inner, u.inner.edges)
    /\ ret' = [next_hops |-> u.next_hops,
               graph |-> Connect(NoGraph,
                                 {e.key : e \in {x \in u.at_bfs : edge_type(x) = "Active"}}),
               unreliable |-> unreliable_peers]
    /\ UNCHANGED <<held, spilled, call>>

\* NetworkState::add_edges with one edge that starts a pass.
AddGraphEdge ==
    \E e \in GraphEdges :
        /\ ~has(snapshot, e)
        /\ PassReturns(update_routing_table(Inner, config, now, <<e>>, unreliable_peers))

\* The periodic pass.
UpdateGraph ==
    PassReturns(update_routing_table(Inner, config, now, <<>>, unreliable_peers))

NextGraph == AddGraphEdge \/ UpdateGraph

SpecGraph == InitGraph /\ [][NextGraph]_vars

\* ------------------------------------ eviction and rehydration of a chain
\* The chain A - B - C - D of four peers, A the local node: the edge (A,B)
\* comes with the nonces 1..ChainNonce, the other two with nonce 1.
ChainNonce == 3
ChainTime == 2
ChainKeys == {<<1, 2>>, <<2, 3>>, <<3, 4>>}
ChainEdges(t) ==
    {e \in [key : ChainKeys, nonce : 1..ChainNonce, valid : {TRUE}, created_at : {t}] :
        e.key # <<1, 2>> => e.nonce = 1}

\* GraphWithCache::new in a network of GraphPeers, no age pruning.
InitChain ==
    /\ config = [prune_unreachable_peers_after |-> prune_unreachable_peers_after,
                 prune_edges_after |-> None, skip_tombstones |-> skip_tombstones]
    /\ registers = <<>>
    /\ fees = <<>>
    /\ edges = {}
    /\ graph = NoGraph
    /\ peer_reachable_at = <<>>
    /\ store = [p \in GraphPeers |-> {}]
    /\ snapshot = {}
    /\ unreliable_peers = {}
    /\ now = 0
    /\ held = [k \in EdgeKey |-> 0]
    /\ spilled = [p \in Peers |-> {}]
    /\ call = <<>>
    /\ ret = <<>>

\* A pass given list has returned u: ret keeps what it was given, the table
\* before the pass, after the components were loaded and when the next hops
\* were computed, the next hops and the evicted peers.
ChainReturns(list, u) ==
    /\ Becomes(u.inner, u.inner.edges)
    /\ ret' = [list |-> list, loaded |-> u.loaded, next_hops |-> u.next_hops,
               pruned_peers |-> u.pruned_peers, at_bfs |-> u.at_bfs,
               before |-> edges]
    /\ UNCHANGED <<held, spilled, call>>

\* NetworkState::add_edges with one edge of the chain.
AddChainEdge ==
    \E e \in ChainEdges(now) :
        /\ ~has(snapshot, e)
        /\ ChainReturns(<<e>>, update_routing_table(Inner, config, now, <<e>>,
                                                    unreliable_peers))

\* The periodic pass.
UpdateChain ==
    ChainReturns(<<>>, update_routing_table(Inner, config, now, <<>>, unreliable_peers))

TickChain ==
    /\ now < ChainTime
    /\ now' = now + 1
    /\ UNCHANGED <<fees, registers, config, edges, graph, peer_reachable_at, store, snapshot,
                   unreliable_peers, held, spilled, call, ret>>

NextChain == AddChainEdge \/ UpdateChain \/ TickChain

SpecChain == InitChain /\ [][NextChain]_vars

\* ------------------------------------------- concurrent add_edges callers
\* NumCallers tasks call add_edges, each at most MaxCalls times.  call.sub[c]
\* is the call of caller c in flight (idle, queued in the demultiplexer, or
\* answered by it), call.queue the callers queued in arrival order, ret[c]
\* the number of results caller c got and the last of them.
NumCallers == 2
MaxCalls == 2
Callers == 1..NumCallers

IdleCall(n) == [state |-> "idle", edges |-> <<>>, ok |-> TRUE, n |-> n, batch |-> <<>>]

\* The edges the callers send: one valid edge of (1,2) or (2,3), or a valid
\* edge of (1,2) and a tampered one of (2,3).
CallerLists(t) ==
    {l \in Batches(t) :
        /\ \A i \in DOMAIN l : l[i].key \in {<<1, 2>>, <<2, 3>>}
        /\ \/ Len(l) = 1 /\ l[1].valid
           \/ Len(l) = 2 /\ l[1].valid /\ ~l[2].valid}

InitDemux ==
    /\ config = [prune_unreachable_peers_after |-> prune_unreachable_peers_after,
                 prune_edges_after |-> None, skip_tombstones |-> skip_tombstones]
    /\ registers = <<>>
    /\ fees = <<>>
    /\ edges = {}
    /\ graph = EmptyGraph
    /\ peer_reachable_at = <<>>
    /\ store = [p \in Peers |-> {}]
    /\ snapshot = {}
    /\ unreliable_peers = {}
    /\ now = 0
    /\ held = [k \in EdgeKey |-> 0]
    /\ spilled = [p \in Peers |-> {}]
    /\ call = [queue |-> <<>>, sub |-> [c \in Callers |-> IdleCall(0)]]
    /\ ret = [c \in Callers |-> [n |-> 0, result |-> "Ok"]]

\* let result = match ok { true => Ok(()), false => Err(InvalidEdge) }
result_of(ok) == IF ok THEN "Ok" ELSE "InvalidEdge"

\* add_edges of caller c up to the first await on the demultiplexer: v is
\* what verify returned.  With nothing verified the call returns at once.
add_edges_submit(c, v) ==
    IF Len(v.edges) = 0
    THEN /\ call' = [call EXCEPT !.sub[c] = IdleCall(@.n + 1)]
         /\ ret' = [ret EXCEPT ![c] = [n |-> @.n + 1, result |-> result_of(v.ok)]]
    ELSE /\ call' = [call EXCEPT
                        !.queue = Append(@, c),
                        !.sub[c] = [state |-> "queued", edges |-> v.edges, ok |-> v.ok,
                                    n |-> @.n + 1, batch |-> <<>>]]
         /\ ret' = ret

DemuxCall(c) ==
    /\ call.sub[c].state = "idle"
    /\ call.sub[c].n < MaxCalls
    /\ \E list \in CallerLists(now) : add_edges_submit(c, verify(snapshot, list))
    /\ UNCHANGED <<fees, registers, config, edges, graph, peer_reachable_at, store, snapshot,
                   unreliable_peers, now, held, spilled>>

\* Only the edges of the first caller are taken.
flatten_first(lists) == IF lists = <<>> THEN <<>> ELSE lists[1]

RECURSIVE flatten(_)
\* edges.into_iter().flatten().collect()
flatten(lists) ==
    IF lists = <<>> THEN <<>> ELSE Head(lists) \o flatten(Tail(lists))

\* The edges of the callers cs, one list per caller.
QueuedEdges(cs) == [i \in DOMAIN cs |-> call.sub[cs[i]].edges]

Served(cs) == {cs[i] : i \in DOMAIN cs}

\* The handler of the demultiplexer has run on the calls of cs with the
\* flattened batch, and r is what the update and the broadcast made of it:
\* the snapshot is published, and every caller of cs is answered.
DemuxHandled(cs, rest, batch, r) ==
    /\ AddEdgesReturns(r)
    /\ call' = [queue |-> rest,
                sub |-> [c \in Callers |->
                            IF c \in Served(cs)
                            THEN [call.sub[c] EXCEPT !.state = "answered", !.batch = batch]
                            ELSE call.sub[c]]]
    /\ UNCHANGED <<ret, held, spilled>>

DemuxBatch(cs, rest, batch) ==
    \E r \in {add_edges_update(TRUE, config, now,
                                update_routing_table(Inner, config, now, batch,
                                                     unreliable_peers))} :
        DemuxHandled(cs, rest, batch, r)

\* The demultiplexer calls the handler with the calls that are queued, or
\* with the first of them when its window closed before the others came.
DemuxRun ==
    \E k \in 1..Len(call.queue) :
        DemuxBatch(SubSeq(call.queue, 1, k),
                   SubSeq(call.queue, k + 1, Len(call.queue)),
                   flatten(QueuedEdges(SubSeq(call.queue, 1, k))))

\* add_edges of caller c returns its result once the demultiplexer answered.
DemuxReturn(c) ==
    /\ call.sub[c].state = "answered"
    /\ call' = [call EXCEPT !.sub[c] = IdleCall(@.n)]
    /\ ret' = [ret EXCEPT ![c] = [n |-> @.n + 1, result |-> result_of(call.sub[c].ok)]]
    /\ UNCHANGED <<fees, registers, config, edges, graph, peer_reachable_at, store, snapshot,
                   unreliable_peers, now, held, spilled>>

NextDemux ==
    \/ \E c \in Callers : DemuxCall(c)
    \/ DemuxRun
    \/ \E c \in Callers : DemuxReturn(c)

\* WF_vars(DemuxRun) written out: DemuxRun is enabled exactly when a call is
\* queued, and every DemuxRun step changes call.queue.
DemuxRunFair == []<>(call.queue = <<>>) \/ []<><<DemuxRun>>_vars

\* The demultiplexer runs its handler when calls are queued, and a task
\* that was answered is scheduled.
SpecDemux ==
    /\ InitDemux
    /\ [][NextDemux]_vars
    /\ DemuxRunFair
    /\ \A c \in Callers : WF_vars(DemuxReturn(c))

\* --------------------------------- readers of the snapshot during a pass
\* GraphWithCache::update_routing_table step by step: the lock of Inner is
\* taken (call.pc = "locked"), the components are loaded ("loaded"), the
\* edges are applied, pruned for their age and the reachable peers stamped
\* ("reached"), the unreachable peers are evicted ("pruned"), and the table
\* is stored in the snapshot, which releases the lock ("idle").  call.version
\* counts the passes completed and call.last is the table that the last of
\* them computes from the state it locked; ret is what load() returned last.
MaxPasses == 3

\* The edges given to a pass: at most one valid edge.
PassLists(t) == {l \in Batches(t) : Len(l) <= 1 /\ \A i \in DOMAIN l : l[i].valid}

InitSnap ==
    /\ config = [prune_unreachable_peers_after |-> prune_unreachable_peers_after,
                 prune_edges_after |-> None, skip_tombstones |-> skip_tombstones]
    /\ registers = <<>>
    /\ fees = <<>>
    /\ edges = {}
    /\ graph = EmptyGraph
    /\ peer_reachable_at = <<>>
    /\ store = [p \in Peers |-> {}]
    /\ snapshot = {}
    /\ unreliable_peers = {}
    /\ now = 0
    /\ held = [k \in EdgeKey |-> 0]
    /\ spilled = [p \in Peers |-> {}]
    /\ call = [pc |-> "idle", list |-> <<>>, version |-> 0, last |-> {}, next |-> {}]
    /\ ret = <<>>

\* Readers share the table of Inner.
edges_published_shared(inner, old, pc) == inner.edges

\* GraphWithCache::edges as the steps of a pass leave it: the table of Inner
\* is stored in it when the pass is over, and it is not touched before.
edges_published(inner, old, pc) == IF pc = "pruned" THEN inner.edges ELSE old

\* Inner is changed by a step of the pass that holds the lock.
InnerBecomes(inner, pc) ==
    /\ edges' = inner.edges
    /\ graph' = inner.graph
    /\ peer_reachable_at' = inner.peer_reachable_at
    /\ store' = inner.store
    /\ snapshot' = edges_published(inner, snapshot, call.pc)
    /\ call' = [call EXCEPT !.pc = pc]
    /\ UNCHANGED <<fees, registers, config, unreliable_peers, now, held, spilled, ret>>

\* let mut inner = self.inner.lock().await
SnapLock ==
    /\ call.pc = "idle"
    /\ call.version < MaxPasses
    /\ \E list \in PassLists(now) :
          call' = [call EXCEPT
                      !.pc = "locked", !.list = list,
                      !.next = update_routing_table(Inner, config, now, list,
                                                    unreliable_peers).inner.edges]
    /\ UNCHANGED <<fees, registers, config, edges, graph, peer_reachable_at, store, snapshot,
                   unreliable_peers, now, held, spilled, ret>>

SnapLoadComponents ==
    /\ call.pc = "locked"
    /\ InnerBecomes(load_components(Inner, config, now, call.list), "loaded")

\* The table and the graph once the edges are applied and pruned for their age.
edges_applied(inner, cfg, t, list) ==
    prune_old(retain_updated([inner |-> inner, edges |-> <<>>], cfg, t, list).inner,
              cfg, t)

\* The stamps of the peers that the next hops of the pruned graph reach.
reachable_stamped(pruned, t, unreliable) ==
    refresh_reachable(pruned, calculate_distance(pruned.graph, node_id, unreliable), t)

SnapUpdateEdges ==
    /\ call.pc = "loaded"
    /\ InnerBecomes(reachable_stamped(edges_applied(Inner, config, now, call.list),
                                      now, unreliable_peers),
                    "reached")

SnapPrune ==
    /\ call.pc = "reached"
    /\ InnerBecomes(prune_unreachable_peers(Inner,
                                            now - config.prune_unreachable_peers_after),
                    "pruned")

\* self.edges.store(Arc::new(inner.edges.clone())), and the lock is dropped.
SnapStore ==
    /\ call.pc = "pruned"
    /\ snapshot' = edges_published(Inner, snapshot, call.pc)
    /\ call' = [call EXCEPT !.pc = "idle", !.list = <<>>, !.version = @ + 1,
                            !.last = call.next]
    /\ UNCHANGED <<fees, registers, config, edges, graph, peer_reachable_at, store,
                   unreliable_peers, now, held, spilled, ret>>

\* GraphWithCache::load, at any time: ret keeps the table it returned, the
\* number of passes completed and the step the pass in progress was at.
SnapLoad ==
    /\ ret' = [table |-> snapshot, version |-> call.version, pc |-> call.pc]
    /\ ret' # ret
    /\ UNCHANGED <<fees, registers, config, edges, graph, peer_reachable_at, store, snapshot,
                   unreliable_peers, now, held, spilled, call>>

NextSnap ==
    SnapLock \/ SnapLoadComponents \/ SnapUpdateEdges \/ SnapPrune \/ SnapStore
        \/ SnapLoad

SpecSnap == InitSnap /\ [][NextSnap]_vars

\* ----------------------------------------------- faults of the storage
\* A pass during which Store::pop_component fails for the peers of failing
\* and Store::push_component fails unless push_ok.  A failed call leaves the
\* store as it was.

\* Inner::load_component: Err(e) => { warn!(..); return vec![] }
load_component_io(inner, cfg, t, peer_id, failing) ==
    IF peer_id \in failing /\ peer_id # node_id
          /\ peer_id \notin DOMAIN inner.peer_reachable_at
    THEN inner
    ELSE load_component(inner, cfg, t, peer_id)

RECURSIVE load_components_io(_, _, _, _, _)
load_components_io(inner, cfg, t, list, failing) ==
    IF list = <<>> THEN inner
    ELSE load_components_io(
            load_component_io(load_component_io(inner, cfg, t, Head(list).key[1], failing),
                              cfg, t, Head(list).key[2], failing),
            cfg, t, Tail(list), failing)

\* A failed write that puts the removed edges back into the table.
store_pruned_rollback(rm, peers, push_ok) ==
    IF push_ok THEN store_pruned(rm, peers)
    ELSE [rm.inner EXCEPT !.edges = @ \cup rm.edges]

\* if let Err(e) = self.store.push_component(&peers, &edges) { warn!(..) }
store_pruned_io(rm, peers, push_ok) ==
    IF push_ok THEN store_pruned(rm, peers) ELSE rm.inner

prune_peers_io(inner, peers, push_ok) ==
    IF peers = {} THEN inner
    ELSE store_pruned_io(
            remove_adjacent_edges(
                [inner EXCEPT !.peer_reachable_at =
                    [p \in (DOMAIN inner.peer_reachable_at) \ peers |->
                        inner.peer_reachable_at[p]]],
                peers),
            peers, push_ok)

prune_unreachable_peers_io(inner, unreachable_since, push_ok) ==
    prune_peers_io(inner, unreachable_peers(inner, unreachable_since), push_ok)

\* Inner::update_routing_table with the faults: the state of Inner it leaves.
update_routing_table_io(inner, cfg, t, list, unreliable, failing, push_ok) ==
    prune_unreachable_peers_io(
        reachable_stamped(
            edges_applied(load_components_io(inner, cfg, t, list, failing), cfg, t, list),
            t, unreliable),
        t - cfg.prune_unreachable_peers_after, push_ok)

\* The edges given to a pass: at most one valid edge, of (1,2) or (2,3).
FaultLists(t) ==
    {l \in PassLists(t) : \A i \in DOMAIN l : l[i].key \in {<<1, 2>>, <<2, 3>>}}

\* What call keeps of a pass with faults: whether a pop failed for a peer
\* with a stored component, and whether a push failed that had edges to write.
FaultsOf(inner, failing, push_ok, written) ==
    [pop_failed |-> \E p \in failing :
                        store[p] # {} /\ p \notin DOMAIN peer_reachable_at,
     push_failed |-> ~push_ok /\ written.store # inner.store]

\* A pass with any faults of the storage.
UpdateFaulty ==
    \E list \in FaultLists(now) :
        \E failing \in SUBSET {p \in Peers \ {node_id} :
                                  \E i \in DOMAIN list : p \in {list[i].key[1], list[i].key[2]}} :
            \E push_ok \in BOOLEAN :
                \E inner \in {update_routing_table_io(Inner, config, now, list,
                                                      unreliable_peers, failing, push_ok)} :
                    /\ Becomes(inner, inner.edges)
                    /\ call' = FaultsOf(inner, failing, push_ok,
                                        update_routing_table_io(Inner, config, now, list,
                                                                unreliable_peers, failing,
                                                                TRUE))
                    /\ UNCHANGED <<held, spilled, ret>>

TickFaulty == ClockAdvance /\ UNCHANGED <<held, spilled, call, ret>>

NextFaulty == UpdateFaulty \/ TickFaulty

\* GraphWithCache::new, without age pruning.
InitFaulty == Init /\ config.prune_edges_after = None

SpecFaulty == InitFaulty /\ [][NextFaulty]_vars

\* ------------------------------------------------------------ propose_edge
\* The snapshot's local_edges: the edges of the snapshot between the local
\* node and peer.
local_edges(snap, peer) ==
    {e \in snap : e.key = <<node_id, peer>> \/ e.key = <<peer, node_id>>}

\* propose_edge that starts from nonce 1 whatever the snapshot holds.
propose_edge_first(snap, peer1, with_nonce) ==
    [peer |-> peer1, nonce |-> IF with_nonce # None THEN with_nonce ELSE 1]

\* propose_edge that advances the held nonce by one.
propose_edge_by_one(snap, peer1, with_nonce) ==
    [peer |-> peer1,
     nonce |-> IF with_nonce # None THEN with_nonce
               ELSE IF local_edges(snap, peer1) = {} THEN 1
               ELSE (CHOOSE e \in local_edges(snap, peer1) : TRUE).nonce + 1]

\* NetworkState::propose_edge: the peer and the nonce of the partial edge.
propose_edge(snap, peer1, with_nonce) ==
    [peer |-> peer1,
     nonce |-> IF with_nonce # None THEN with_nonce
               ELSE IF local_edges(snap, peer1) = {} THEN 1
               ELSE next(CHOOSE e \in local_edges(snap, peer1) : TRUE)]

\* propose_edge called for any other peer, with any nonce or none: ret keeps
\* the arguments and the partial edge.
ProposeEdge ==
    /\ \E peer \in Peers \ {node_id} :
          \E with_nonce \in {None} \cup (1..(MaxNonce + 1)) :
              ret' = [peer |-> peer, with_nonce |-> with_nonce,
                      edge |-> propose_edge(snapshot, peer, with_nonce)]
    /\ ret' # ret
    /\ UNCHANGED <<fees, registers, config, edges, graph, peer_reachable_at, store, snapshot,
                   unreliable_peers, now, held, spilled, call>>

NextPropose == AddEdges \/ ProposeEdge

SpecPropose == InitFaulty /\ [][NextPropose]_vars

\* ------------------------------------------------- edges delivered late
\* An edge is stamped created_at when it is first seen; the pass that applies
\* it reads the clock when it starts, after the edge has waited for the
\* verification, the demultiplexer and the lock.  AgedEdges(t) are the edges
\* a pass can be given at time t.
AgedKeys == {<<1, 2>>, <<2, 3>>}

AgedEdges(t) == [key : AgedKeys, nonce : 1..MaxNonce, valid : {TRUE}, created_at : 0..t]

AgedLists(t) == AscendingSeqs(AgedEdges(t), MaxBatch)

\* The components the pass pops from the store: those of the endpoints of the
\* incoming edges that are not in R.
popped(inner, list) ==
    [p \in {q \in Endpoints(list) :
                q # node_id /\ q \notin DOMAIN inner.peer_reachable_at} |->
        inner.store[p]]

\* A pass given list at time now has returned u: ret keeps the time, the
\* list, the table before the pass, the components it popped from the store, the
\* table after the components were loaded and after the age pruning, and the
\* applied list it returned.
AgedReturns(list, u) ==
    /\ Becomes(u.inner, u.inner.edges)
    /\ ret' = [now |-> now, list |-> list, before |-> edges,
               popped |-> popped(Inner, list), loaded |-> u.loaded,
               at_bfs |-> u.at_bfs, edges |-> u.edges]
    /\ UNCHANGED <<held, spilled, call>>

\* GraphWithCache::update_routing_table with edges seen at any time so far.
UpdateAged ==
    \E list \in AgedLists(now) :
        AgedReturns(list, update_routing_table(Inner, config, now, list, unreliable_peers))

TickAged == ClockAdvance /\ UNCHANGED <<held, spilled, call, ret>>

NextAged == UpdateAged \/ TickAged

\* GraphWithCache::new, with age pruning.
InitAged == Init /\ config.prune_edges_after # None

SpecAged == InitAged /\ [][NextAged]_vars

\* --------------------------------------------- concurrent passes on Inner
\* NumWriters tasks call GraphWithCache::update_routing_table, each at most
\* MaxWrites times.  call.owner is the task that holds the lock of Inner (or
\* None); call.sub[c] is the call of task c: waiting for the lock, holding it
\* with the components of call.sub[c].todo still to load ("locked"), having
\* applied the edges and stamped the reachable peers ("reached"), evicted the
\* unreachable ones ("pruned"), stored the snapshot ("stored"), or idle.
\* A pass is suspended between any two of its steps, and in particular while
\* a component is popped from the store.
NumWriters == 2
MaxWrites == 2
Writers == 1..NumWriters

InPass == {"locked", "reached", "pruned", "stored"}

\* The endpoints of the edges of list, in the order their components load.
RECURSIVE endpoints_of(_)
endpoints_of(list) ==
    IF list = <<>> THEN <<>>
    ELSE <<Head(list).key[1], Head(list).key[2]>> \o endpoints_of(Tail(list))

InitLock ==
    /\ config = [prune_unreachable_peers_after |-> prune_unreachable_peers_after,
                 prune_edges_after |-> None, skip_tombstones |-> skip_tombstones]
    /\ registers = <<>>
    /\ fees = <<>>
    /\ edges = {}
    /\ graph = EmptyGraph
    /\ peer_reachable_at = <<>>
    /\ store = [p \in Peers |-> {}]
    /\ snapshot = {}
    /\ unreliable_peers = {}
    /\ now = 0
    /\ held = [k \in EdgeKey |-> 0]
    /\ spilled = [p \in Peers |-> {}]
    /\ call = [owner |-> None,
               sub |-> [c \in Writers |->
                          [pc |-> "idle", list |-> <<>>, todo |-> <<>>,
                           next |-> <<>>, n |-> 0]]]
    /\ ret = <<>>

\* A lock that is handed out whoever holds it.
mutex_available_always(owner) == TRUE

\* tokio::sync::Mutex: lock() returns when nobody holds the lock.
mutex_available(owner) == owner = None

\* A step of task c that leaves Inner alone.
WriterBecomes(owner, c, sub) ==
    /\ call' = [call EXCEPT !.owner = owner, !.sub[c] = sub]
    /\ UNCHANGED <<edges, graph, peer_reachable_at, store, held, spilled, ret>>

\* A step of the pass of task c that leaves Inner as inner.
WriterSteps(c, inner, sub) ==
    /\ edges' = inner.edges
    /\ graph' = inner.graph
    /\ peer_reachable_at' = inner.peer_reachable_at
    /\ store' = inner.store
    /\ call' = [call EXCEPT !.sub[c] = sub]
    /\ UNCHANGED <<fees, registers, config, snapshot, unreliable_peers, now, held,
                   spilled, ret>>

\* Task c calls update_routing_table and waits for the lock.
WriterCall(c) ==
    /\ call.sub[c].pc = "idle"
    /\ call.sub[c].n < MaxWrites
    /\ \E list \in FaultLists(now) :
          WriterBecomes(call.owner, c,
                        [call.sub[c] EXCEPT !.pc = "waiting", !.list = list])
    /\ UNCHANGED <<fees, registers, config, snapshot, unreliable_peers, now>>

\* let mut inner = self.inner.lock().await; .next is the table a pass that
\* nobody interferes with computes from the state it locked.
WriterLock(c) ==
    /\ call.sub[c].pc = "waiting"
    /\ mutex_available(call.owner)
    /\ WriterBecomes(c, c,
          [call.sub[c] EXCEPT
              !.pc = "locked",
              !.todo = endpoints_of(call.sub[c].list),
              !.next = update_routing_table(Inner, config, now, call.sub[c].list,
                                            unreliable_peers).inner])
    /\ UNCHANGED <<fees, registers, config, snapshot, unreliable_peers, now>>

\* self.load_component(now, peer).await for the next endpoint.
WriterLoad(c) ==
    /\ call.sub[c].pc = "locked"
    /\ call.sub[c].todo # <<>>
    /\ WriterSteps(c, load_component(Inner, config, now, Head(call.sub[c].todo)),
                   [call.sub[c] EXCEPT !.todo = Tail(@)])

WriterApply(c) ==
    /\ call.sub[c].pc = "locked"
    /\ call.sub[c].todo = <<>>
    /\ WriterSteps(c, reachable_stamped(edges_applied(Inner, config, now,
                                                      call.sub[c].list),
                                        now, unreliable_peers),
                   [call.sub[c] EXCEPT !.pc = "reached"])

WriterPrune(c) ==
    /\ call.sub[c].pc = "reached"
    /\ WriterSteps(c, prune_unreachable_peers(Inner,
                          now - config.prune_unreachable_peers_after),
                   [call.sub[c] EXCEPT !.pc = "pruned"])

\* self.edges.store(Arc::new(inner.edges.clone()))
WriterStore(c) ==
    /\ call.sub[c].pc = "pruned"
    /\ snapshot' = edges
    /\ WriterBecomes(call.owner, c, [call.sub[c] EXCEPT !.pc = "stored"])
    /\ UNCHANGED <<fees, registers, config, unreliable_peers, now>>

\* The call returns and the guard of the lock is dropped.
WriterReturn(c) ==
    /\ call.sub[c].pc = "stored"
    /\ WriterBecomes(IF call.owner = c THEN None ELSE call.owner, c,
                     [call.sub[c] EXCEPT !.pc = "idle", !.list = <<>>,
                                         !.next = <<>>, !.n = @ + 1])
    /\ UNCHANGED <<fees, registers, config, snapshot, unreliable_peers, now>>

NextLock ==
    \E c \in Writers :
        \/ WriterCall(c)
        \/ WriterLock(c)
        \/ WriterLoad(c)
        \/ WriterApply(c)
        \/ WriterPrune(c)
        \/ WriterStore(c)
        \/ WriterReturn(c)

SpecLock == InitLock /\ [][NextLock]_vars

\* ------------------------------------------------- what add_edges broadcasts
\* NumConns TIER2 connections become ready and close; call.ready is
\* tier2.load().ready.  The calls of add_edges that the demultiplexer serves
\* together are verified against the published snapshot, and the handler runs
\* once on their verified edges, flattened in the order of the calls.
NumConns == 2
Conns == 1..NumConns

\* The edges a caller sends at time t: the valid edges of two keys, and a
\* tampered edge.
BroadcastEdges(t) ==
    {e \in [key : AgedKeys, nonce : 1..MaxNonce, valid : BOOLEAN, created_at : {t}] :
        e.valid \/ (e.key = <<1, 2>> /\ e.nonce = 1)}

\* The lists of the calls served together: up to NumCallers calls, one edge each.
BroadcastCalls(t) ==
    UNION {[1..n -> {<<e>> : e \in BroadcastEdges(t)}] : n \in 1..NumCallers}

InitBroadcast ==
    /\ config = [prune_unreachable_peers_after |-> prune_unreachable_peers_after,
                 prune_edges_after |-> None, skip_tombstones |-> skip_tombstones]
    /\ registers = <<>>
    /\ fees = <<>>
    /\ edges = {}
    /\ graph = EmptyGraph
    /\ peer_reachable_at = <<>>
    /\ store = [p \in Peers |-> {}]
    /\ snapshot = {}
    /\ unreliable_peers = {}
    /\ now = 0
    /\ held = [k \in EdgeKey |-> 0]
    /\ spilled = [p \in Peers |-> {}]
    /\ call = [ready |-> {}]
    /\ ret = <<>>

\* The message is sent as it was given.
send_message_as_given(ready, rtu) ==
    IF rtu = <<>> THEN <<>> ELSE [conn \in ready |-> rtu]

\* broadcast_routing_table_update on the edges of rtu: what each connection is
\* sent, no connection being sent anything when rtu is the default update.
send_message_to_ready(ready, rtu) ==
    IF broadcast_routing_table_update(rtu) = <<>> THEN <<>>
    ELSE [conn \in ready |-> broadcast_routing_table_update(rtu)]

\* The calls of lists have returned: verified are the edges verify accepted
\* for each, r is what add_edges made of them, flattened.  ret keeps the
\* batch, the table after the components were loaded, the edges the pass
\* applied and what each ready connection was sent.
BroadcastReturns(lists, verified, r) ==
    /\ AddEdgesReturns(r)
    /\ ret' = [batch |-> flatten(verified), loaded |-> r.loaded, applied |-> r.edges,
               sent |-> send_message_to_ready(call.ready, r.event)]
    /\ UNCHANGED <<held, spilled, call>>

BroadcastVerified(lists, verified) ==
    BroadcastReturns(lists, verified,
        add_edges_verified(Inner, snapshot, config, now,
                           [edges |-> flatten(verified), ok |-> TRUE],
                           unreliable_peers))

\* add_edges is called by up to NumCallers tasks within one window of the
\* demultiplexer.
AddEdgesBroadcast ==
    \E lists \in BroadcastCalls(now) :
        BroadcastVerified(lists,
            [i \in DOMAIN lists |-> verify(snapshot, lists[i]).edges])

\* A TIER2 connection becomes ready.
ConnReady(conn) ==
    /\ conn \notin call.ready
    /\ call' = [call EXCEPT !.ready = @ \cup {conn}]
    /\ UNCHANGED <<fees, registers, config, edges, graph, peer_reachable_at, store, snapshot,
                   unreliable_peers, now, held, spilled, ret>>

\* A ready TIER2 connection is closed.
ConnClosed(conn) ==
    /\ conn \in call.ready
    /\ call' = [call EXCEPT !.ready = @ \ {conn}]
    /\ UNCHANGED <<fees, registers, config, edges, graph, peer_reachable_at, store, snapshot,
                   unreliable_peers, now, held, spilled, ret>>

TickBroadcast == ClockAdvance /\ UNCHANGED <<held, spilled, call, ret>>

NextBroadcast ==
    \/ AddEdgesBroadcast
    \/ \E conn \in Conns : ConnReady(conn)
    \/ \E conn \in Conns : ConnClosed(conn)
    \/ TickBroadcast

SpecBroadcast == InitBroadcast /\ [][NextBroadcast]_vars

\* ----------------------------------------------------------- finalize_edge
\* One task calls finalize_edge while edges of other peers arrive.  call is
\* the call in flight: idle, or queued in the demultiplexer with its
\* verified edge, the other calls of add_edges running in between; ret is
\* the edge the last call of finalize_edge built and what it returned.

\* Edge::build_with_secret_key: the edge between the local node and peer_id,
\* whose signatures verify when the signature of the partial edge does.
build_with_secret_key(peer_id, nonce, signed, t) ==
    [key |-> IF node_id < peer_id THEN <<node_id, peer_id>> ELSE <<peer_id, node_id>>,
     nonce |-> nonce, valid |-> signed, created_at |-> t]

IdleFinalize == [pc |-> "idle"]

\* GraphWithCache::new, without age pruning; no call is in flight.
InitFinalize ==
    /\ config = [prune_unreachable_peers_after |-> prune_unreachable_peers_after,
                 prune_edges_after |-> None, skip_tombstones |-> skip_tombstones]
    /\ registers = <<>>
    /\ fees = <<>>
    /\ edges = {}
    /\ graph = EmptyGraph
    /\ peer_reachable_at = <<>>
    /\ store = [p \in Peers |-> {}]
    /\ snapshot = {}
    /\ unreliable_peers = {}
    /\ now = 0
    /\ held = [k \in EdgeKey |-> 0]
    /\ spilled = [p \in Peers |-> {}]
    /\ call = IdleFinalize
    /\ ret = <<>>

\* finalize_edge that returns the edge whatever add_edges returned.
finalize_edge_result_ignored(edge, result) == [result |-> "Ok", edge |-> edge]

\* self.add_edges(&clock, vec![edge.clone()]).await?; Ok(edge)
finalize_edge_result(edge, result) ==
    IF result = "Ok" THEN [result |-> "Ok", edge |-> edge]
    ELSE [result |-> result]

\* finalize_edge up to the await on the demultiplexer: v is what verify
\* returned for the built edge.  With nothing verified add_edges returns its
\* result at once.
finalize_edge_submit(edge, v) ==
    IF Len(v.edges) = 0
    THEN /\ call' = IdleFinalize
         /\ ret' = [built |-> edge, out |-> finalize_edge_result(edge, result_of(v.ok))]
    ELSE /\ call' = [pc |-> "queued", edge |-> edge, edges |-> v.edges, ok |-> v.ok]
         /\ ret' = <<>>

\* finalize_edge is called with the partial edge of a peer.
FinalizeCall ==
    /\ call.pc = "idle"
    /\ \E peer_id \in Peers \ {node_id} : \E nonce \in 1..MaxNonce : \E signed \in BOOLEAN :
          finalize_edge_submit(
              build_with_secret_key(peer_id, nonce, signed, now),
              verify(snapshot, <<build_with_secret_key(peer_id, nonce, signed, now)>>))
    /\ UNCHANGED <<fees, registers, config, edges, graph, peer_reachable_at, store, snapshot,
                   unreliable_peers, now, held, spilled>>

\* The demultiplexer runs the handler on the edge of finalize_edge, and
\* finalize_edge returns.
FinalizeUpdate ==
    /\ call.pc = "queued"
    /\ AddEdgesReturns(add_edges_update(call.ok, config, now,
           update_routing_table(Inner, config, now, call.edges, unreliable_peers)))
    /\ call' = IdleFinalize
    /\ ret' = [built |-> call.edge,
               out |-> finalize_edge_result(call.edge, result_of(call.ok))]
    /\ UNCHANGED <<held, spilled>>

\* A valid edge of any key arrives in another call of add_edges.
AddEdgesOthers ==
    /\ \E list \in PassLists(now) :
          AddEdgesReturns(add_edges(Inner, snapshot, config, now, list, unreliable_peers))
    /\ UNCHANGED <<held, spilled, call, ret>>

TickFinalize == ClockAdvance /\ UNCHANGED <<held, spilled, call, ret>>

NextFinalize == FinalizeCall \/ FinalizeUpdate \/ AddEdgesOthers \/ TickFinalize

SpecFinalize == InitFinalize /\ [][NextFinalize]_vars

\* ------------------------------------------------- one edge per pass
RECURSIVE deliver(_, _, _, _)
\* The edges of list given to Inner::update_routing_table one per pass, all
\* at time t and with no unreliable peer: what the last pass returns and
\* leaves (r is what the pass before returned).
deliver(r, cfg, t, list) ==
    IF list = <<>> THEN r
    ELSE deliver(update_routing_table(r.inner, cfg, t, <<Head(list)>>, {}),
                 cfg, t, Tail(list))

\* ------------------------------------------- the same edge submitted twice
\* NumCallers calls of add_edges submit the same edge, unknown so far, and
\* all pass verify against the snapshot before any of them is served; the
\* demultiplexer serves them in one batch or one after the other, other
\* calls and the clock running in between.  call keeps the edge, the calls
\* still queued, whether no other call was served since the submission
\* (.alone) and three counts: how often an applied list held the edge
\* (.applied), how often a pass rehydrated it from the store (.loaded) and
\* how many messages held it (.sent).
InitSame ==
    /\ config = [prune_unreachable_peers_after |-> prune_unreachable_peers_after,
                 prune_edges_after |-> None, skip_tombstones |-> skip_tombstones]
    /\ registers = <<>>
    /\ fees = <<>>
    /\ edges = {}
    /\ graph = EmptyGraph
    /\ peer_reachable_at = <<>>
    /\ store = [p \in Peers |-> {}]
    /\ snapshot = {}
    /\ unreliable_peers = {}
    /\ now = 0
    /\ held = [k \in EdgeKey |-> 0]
    /\ spilled = [p \in Peers |-> {}]
    /\ call = [pc |-> "before"]
    /\ ret = <<>>

\* Neither the snapshot, E nor the store holds the key of e with the nonce
\* of e or a higher one.
Unknown(e) ==
    /\ ~has(snapshot, e)
    /\ ~has(edges, e)
    /\ \A p \in Peers : ~has(store[p], e)

\* The calls are made: verify accepts the edge for each of them.
SameSubmit ==
    /\ call.pc = "before"
    /\ \E e \in {x \in [key : EdgeKey, nonce : 1..MaxNonce, valid : {TRUE}, created_at : {now}] :
                    Unknown(x)} :
          /\ verify(snapshot, <<e>>).edges = <<e>>
          /\ call' = [pc |-> "submitted", edge |-> e, queued |-> NumCallers,
                      alone |-> TRUE, applied |-> 0, loaded |-> 0, sent |-> 0]
    /\ UNCHANGED <<fees, registers, config, edges, graph, peer_reachable_at, store, snapshot,
                   unreliable_peers, now, held, spilled, ret>>

\* How many entries of list are e.
CountOf(list, e) == Cardinality({i \in DOMAIN list : list[i] = e})

\* The handler has run on k of the queued calls and r is what it made of
\* their edges.
SameHandled(k, r) ==
    /\ AddEdgesReturns(r)
    /\ call' = [call EXCEPT
                  !.queued = @ - k,
                  !.applied = @ + CountOf(r.edges, call.edge),
                  !.loaded = @ + (IF call.edge \in r.loaded \ edges THEN 1 ELSE 0),
                  !.sent = @ + (IF CountOf(r.broadcast, call.edge) > 0 THEN 1 ELSE 0)]
    /\ UNCHANGED <<held, spilled, ret>>

\* The demultiplexer serves the first k queued calls in one batch.
SameRun ==
    /\ call.pc = "submitted"
    /\ \E k \in 1..call.queued :
          SameHandled(k,
              add_edges_update(TRUE, config, now,
                  update_routing_table(Inner, config, now,
                                       [i \in 1..k |-> call.edge], unreliable_peers)))

\* Another call of add_edges brings a valid edge that is not the submitted one.
SameOthers ==
    /\ \E list \in {l \in PassLists(now) :
                       call.pc = "submitted" =>
                           \A i \in DOMAIN l :
                               l[i].key # call.edge.key \/ l[i].nonce # call.edge.nonce} :
          AddEdgesReturns(add_edges(Inner, snapshot, config, now, list, unreliable_peers))
    /\ call' = IF call.pc = "submitted" THEN [call EXCEPT !.alone = FALSE] ELSE call
    /\ UNCHANGED <<held, spilled, ret>>

TickSame == ClockAdvance /\ UNCHANGED <<held, spilled, call, ret>>

NextSame == SameSubmit \/ SameRun \/ SameOthers \/ TickSame

SpecSame == InitSame /\ [][NextSame]_vars

\* ============================================ Registers (near-vm-logic)
\* The register file of the VM is a map from register id to the bytes it holds.

NumRegisters == 2
MaxDataLen == 2

RegisterIds == 1..NumRegisters
Bytes == {0, 1}
Data == UNION {[1..n -> Bytes] : n \in 0..MaxDataLen}

\* size_of::<u64>()
size_of_u64 == 8

\* VMLimitConfig: the three limits Registers::set reads.
VMLimitConfigs ==
    [max_register_size : {1, 2},
     max_number_registers : {1, 2},
     registers_memory_limit : {9, 18}]

\* Registers::default
InitRegisters ==
    /\ config \in VMLimitConfigs
    /\ registers = <<>>
    /\ fees = <<>>
    /\ edges = {}
    /\ graph = EmptyGraph
    /\ peer_reachable_at = <<>>
    /\ store = [p \in Peers |-> {}]
    /\ snapshot = {}
    /\ unreliable_peers = {}
    /\ now = 0
    /\ held = [k \in EdgeKey |-> 0]
    /\ spilled = [p \in Peers |-> {}]
    /\ call = <<>>
    /\ ret = <<>>

\* self.0.values().map(|v| size_of::<u64>() + v.len()).sum()
RECURSIVE usage_of(_, _)
usage_of(regs, ids) ==
    IF ids = {} THEN 0
    ELSE LET i == CHOOSE j \in ids : TRUE
         IN  size_of_u64 + Len(regs[i]) + usage_of(regs, ids \ {i})

usage(regs) == usage_of(regs, DOMAIN regs)

\* HashMap::insert
registers_insert(regs, register_id, data) ==
    [i \in DOMAIN regs \cup {register_id} |->
        IF i = register_id THEN data ELSE regs[i]]

\* The tail of Registers::set: the register is inserted first, the memory
\* usage is checked afterwards, and only when the value did not shrink.
registers_store(regs, cfg, register_id, data) ==
    IF register_id \in DOMAIN regs /\ Len(regs[register_id]) >= Len(data)
    THEN [regs |-> registers_insert(regs, register_id, data), result |-> "Ok"]
    ELSE IF usage(registers_insert(regs, register_id, data)) > cfg.registers_memory_limit
    THEN [regs |-> registers_insert(regs, register_id, data),
          result |-> "MemoryAccessViolation"]
    ELSE [regs |-> registers_insert(regs, register_id, data), result |-> "Ok"]

\* Registers::set with the count limit applied to new registers only.
registers_set_replacing(regs, cfg, register_id, data, paid) ==
    IF ~paid
    THEN [regs |-> regs, result |-> "GasExceeded"]
    ELSE IF \/ Len(data) > cfg.max_register_size
            \/ /\ register_id \notin DOMAIN regs
               /\ Cardinality(DOMAIN regs) >= cfg.max_number_registers
    THEN [regs |-> regs, result |-> "MemoryAccessViolation"]
    ELSE registers_store(regs, cfg, register_id, data)

\* Registers::set.  paid is the outcome of gas_counter.pay_base and pay_per:
\* their error is returned before any limit is looked at.
registers_set(regs, cfg, register_id, data, paid) ==
    IF ~paid
    THEN [regs |-> regs, result |-> "GasExceeded"]
    ELSE IF \/ Len(data) > cfg.max_register_size
            \/ Cardinality(DOMAIN regs) >= cfg.max_number_registers
    THEN [regs |-> regs, result |-> "MemoryAccessViolation"]
    ELSE registers_store(regs, cfg, register_id, data)

\* The outcomes of gas_counter.pay_base followed by gas_counter.pay_per.
Payments == {"paid", "base_unpaid", "byte_unpaid"}

\* The fees asked of the gas counter: pay_per is not reached when pay_base fails.
fees_paid(base, byte, len, outcome) ==
    IF outcome = "base_unpaid" THEN <<base>> ELSE <<base, <<byte, len>>>>

\* Registers::get with the gas paid before the register is looked up.
registers_get_paying_first(regs, register_id, outcome) ==
    [result |-> IF outcome # "paid" THEN [kind |-> "GasExceeded"]
                ELSE IF register_id \in DOMAIN regs
                THEN [kind |-> "Ok", data |-> regs[register_id]]
                ELSE [kind |-> "InvalidRegisterId", register_id |-> register_id],
     fees |-> fees_paid("read_register_base", "read_register_byte",
                        IF register_id \in DOMAIN regs
                        THEN Len(regs[register_id]) ELSE 0, outcome)]

\* Registers::get
registers_get(regs, register_id, outcome) ==
    IF register_id \in DOMAIN regs
    THEN [result |-> IF outcome = "paid"
                     THEN [kind |-> "Ok", data |-> regs[register_id]]
                     ELSE [kind |-> "GasExceeded"],
          fees |-> fees_paid("read_register_base", "read_register_byte",
                             Len(regs[register_id]), outcome)]
    ELSE [result |-> [kind |-> "InvalidRegisterId", register_id |-> register_id],
          fees |-> <<>>]

\* Registers::get_len
get_len(regs, register_id) ==
    IF register_id \in DOMAIN regs THEN Len(regs[register_id]) ELSE None

RegistersSet ==
    \E register_id \in RegisterIds, data \in Data, outcome \in Payments :
        /\ registers' = registers_set(registers, config, register_id, data,
                                      outcome = "paid").regs
        /\ ret' = registers_set(registers, config, register_id, data,
                                outcome = "paid").result
        /\ fees' = fees_paid("write_register_base", "write_register_byte",
                             Len(data), outcome)
        /\ call' = [op |-> "set", register_id |-> register_id, data |-> data,
                    paid |-> outcome = "paid", before |-> registers]
        /\ UNCHANGED <<edges, graph, peer_reachable_at, store, snapshot,
                       unreliable_peers, now, held, spilled, config>>

RegistersGet ==
    \E register_id \in RegisterIds, outcome \in Payments :
        /\ ret' = registers_get(registers, register_id, outcome).result
        /\ fees' = registers_get(registers, register_id, outcome).fees
        /\ call' = [op |-> "get", register_id |-> register_id,
                    paid |-> outcome = "paid", before |-> registers]
        /\ UNCHANGED <<edges, graph, peer_reachable_at, store, snapshot,
                       unreliable_peers, now, held, spilled, config, registers>>

RegistersGetLen ==
    \E register_id \in RegisterIds :
        /\ ret' = get_len(registers, register_id)
        /\ fees' = <<>>
        /\ call' = [op |-> "get_len", register_id |-> register_id,
                    before |-> registers]
        /\ UNCHANGED <<edges, graph, peer_reachable_at, store, snapshot,
                       unreliable_peers, now, held, spilled, config, registers>>

NextRegisters == RegistersSet \/ RegistersGet \/ RegistersGetLen

SpecRegisters == InitRegisters /\ [][NextRegisters]_vars

\* ============================================ monitor_peers_trigger
\* The periodic peer monitor of PeerManagerActor: each run schedules the next
\* one.  Durations are in nanoseconds; the product with the f64 ratio is
\* taken as the exact product cut to whole nanoseconds.

\* EXPONENTIAL_BACKOFF_RATIO = 1.1, as numerator and denominator.
EXPONENTIAL_BACKOFF_RATIO == <<11, 10>>

\* MONITOR_PEERS_INITIAL_DURATION = 10 ms
MONITOR_PEERS_INITIAL_DURATION == 10000000

\* config.monitor_peers_max_period: values below, at and above the initial
\* duration.
MaxPeriods == {0, 4000000, 10000000, 12000000, 25000000, 40000000, 100000000}

min(a, b) == IF a <= b THEN a ELSE b

\* interval * EXPONENTIAL_BACKOFF_RATIO
backoff(interval) ==
    (interval * EXPONENTIAL_BACKOFF_RATIO[1]) \div EXPONENTIAL_BACKOFF_RATIO[2]

\* monitor_peers_trigger that resets the interval in every run that finds a
\* peer to dial.
monitor_peers_trigger_resetting(interval, default_interval, max_interval, started, found) ==
    [delay |-> IF found THEN default_interval ELSE interval,
     new_interval |-> min(max_interval,
                          backoff(IF found THEN default_interval ELSE interval)),
     started_connect_attempts |-> started \/ found,
     reset |-> found]

\* PeerManagerActor::monitor_peers_trigger.  found: an outbound bootstrap is
\* needed and the peer store has an unconnected peer to dial.  The run is
\* scheduled again after .delay with .new_interval.
monitor_peers_trigger(interval, default_interval, max_interval, started, found) ==
    [delay |-> IF found /\ ~started THEN default_interval ELSE interval,
     new_interval |-> min(max_interval,
                          backoff(IF found /\ ~started THEN default_interval ELSE interval)),
     started_connect_attempts |-> started \/ found,
     reset |-> found /\ ~started]

\* PeerManagerActor::started: the first run is given the initial duration as
\* interval and as default_interval; no delay has been scheduled.
InitMonitor ==
    /\ config \in [monitor_peers_max_period : MaxPeriods]
    /\ call = [interval |-> MONITOR_PEERS_INITIAL_DURATION,
               started_connect_attempts |-> FALSE]
    /\ ret = [runs |-> 0, resets |-> 0]
    /\ registers = <<>>
    /\ fees = <<>>
    /\ edges = {}
    /\ graph = EmptyGraph
    /\ peer_reachable_at = <<>>
    /\ store = [p \in Peers |-> {}]
    /\ snapshot = {}
    /\ unreliable_peers = {}
    /\ now = 0
    /\ held = [k \in EdgeKey |-> 0]
    /\ spilled = [p \in Peers |-> {}]

\* What a run leaves: the argument and the flag of the next run in call, and
\* in ret the delay it scheduled, the interval it was given, whether it was
\* the first run (.runs is 1 after the first run and 2 after any later one)
\* and the resets so far.
MonitorScheduled(r) ==
    /\ call' = [interval |-> r.new_interval,
                started_connect_attempts |-> r.started_connect_attempts]
    /\ ret' = [runs |-> min(2, ret.runs + 1),
               resets |-> ret.resets + (IF r.reset THEN 1 ELSE 0),
               given |-> call.interval,
               delay |-> r.delay,
               was_started |-> call.started_connect_attempts]

\* One run of monitor_peers_trigger, fired by the timer of the run before.
MonitorPeersTrigger ==
    /\ \E found \in BOOLEAN :
          MonitorScheduled(
              monitor_peers_trigger(call.interval, MONITOR_PEERS_INITIAL_DURATION,
                                    config.monitor_peers_max_period,
                                    call.started_connect_attempts, found))
    /\ UNCHANGED <<fees, registers, config, edges, graph, peer_reachable_at, store,
                   snapshot, unreliable_peers, now, held, spilled>>

NextMonitor == MonitorPeersTrigger

SpecMonitor == InitMonitor /\ [][NextMonitor]_vars

\* run_later always fires: every scheduled run takes place.
SpecMonitorFair == SpecMonitor /\ WF_vars(MonitorPeersTrigger)

\* =================================================================== claims
RECURSIVE Closure(_, _)
\* The peers connected to a peer of S by the edges of g.
Closure(g, S) ==
    IF (UNION {g[p] : p \in S}) \subseteq S THEN S
    ELSE Closure(g, S \cup UNION {g[p] : p \in S})

ActiveKeys(set) == {e.key : e \in {x \in set : edge_type(x) = "Active"}}
ListEdges(list) == {list[i] : i \in DOMAIN list}
ValidEdges(t) == {e \in IncomingEdges(t) : e.valid}

\* C1: at every step boundary an edge key is in the graph iff the edge table
\* holds an Active edge for it; a key held as Removed or not held has no edge
\* in the graph.
C1_GraphMatchesEdges == GraphKeys(graph) = ActiveKeys(edges)

\* An Active edge and a tombstone are held, and a component has been stored.
C1_Witness ==
    /\ \E e \in edges : edge_type(e) = "Active"
    /\ \E e \in edges : edge_type(e) = "Removed"
    /\ \E p \in Peers : store[p] # {}
    /\ now > 0

UniqueKeys == \A e \in edges : \A x \in edges : x.key = e.key => x = e

\* C2: the edge table holds at most one edge per key, and once it has held a
\* key at a nonce it never holds the key at a smaller one, whether the entry
\* was age-pruned, evicted or rehydrated in between.
C2_NonceNeverDecreases ==
    /\ UniqueKeys
    /\ \A e \in edges : e.nonce >= held[e.key]

NonceKept == \A e \in edges : \A x \in edges' : x.key = e.key => x.nonce >= e.nonce

\* C2 (amended): the edge table holds at most one edge per key, and a call
\* never replaces an entry by one of a smaller nonce; a key that has left the
\* edge table may come back at a smaller nonce.
C2_NonceKeptWhileHeld == []UniqueKeys /\ [][NonceKept]_vars

\* A key is held at the largest nonce, which replaced a smaller one, and
\* another key has left the edge table.
C2_Witness ==
    /\ \E e \in edges : e.nonce = MaxNonce /\ e.created_at > 0
    /\ \E k \in EdgeKey : held[k] > 0 /\ ~\E e \in edges : e.key = k

SameTables(r1, r2) ==
    /\ r2.inner.edges = r1.inner.edges
    /\ r2.inner.graph = r1.inner.graph
    /\ r2.next_hops = r1.next_hops

\* r1: the pass that applies e; r2: the pass that applies e to the state r1
\* left; r12: the pass that applies e twice in one batch.
AppliedAgain(r1, r2, r12) ==
    /\ SameTables(r1, r2)
    /\ r2.edges = <<>>
    /\ SameTables(r1, r12)
    /\ r12.edges = r1.edges

AppliedTwice(r1, e) ==
    AppliedAgain(r1,
        update_routing_table(r1.inner, config, now, <<e>>, unreliable_peers),
        update_routing_table(Inner, config, now, <<e, e>>, unreliable_peers))

DominatedByStale(e) ==
    /\ config.prune_edges_after # None
    /\ \E x \in edges :
            /\ x.key = e.key
            /\ x.nonce >= e.nonce
            /\ is_edge_older_than(x, now - config.prune_edges_after)

C5_ErrorIffInvalid ==
    \A list \in Batches(now) :
        (add_edges(Inner, snapshot, config, now, list, unreliable_peers).result
            = "InvalidEdge")
        <=> (\E i \in DOMAIN list : ~verify_edge(list[i]))

\* The keys for which neither the edge table nor the store holds an edge.
UnknownKeys == EdgeKey \ ({e.key : e \in edges} \cup {e.key : e \in UNION {store[p] : p \in Peers}})

\* The held edges that the next pass does not age-prune.
FreshEdges ==
    {x \in edges : config.prune_edges_after = None
                   \/ ~is_edge_older_than(x, now - config.prune_edges_after)}

\* A batch of previously unknown edges, some valid and some tampered, whose
\* valid edges are Active and connect to the local node by the edges that the
\* pass keeps.
MixedBatch(list) ==
    /\ \E i \in DOMAIN list : list[i].valid
    /\ \E i \in DOMAIN list : ~list[i].valid
    /\ \A i \in DOMAIN list : list[i].key \in UnknownKeys
    /\ \A i \in DOMAIN list : list[i].valid => edge_type(list[i]) = "Active"
    /\ \A i \in DOMAIN list : list[i].valid =>
            {list[i].key[1], list[i].key[2]} \subseteq
                Closure(Connect(EmptyGraph,
                                ActiveKeys(FreshEdges)
                                    \cup {e.key : e \in {x \in ListEdges(list) : x.valid}}),
                        {node_id})

MixedBatchAdded(list, r) ==
    /\ r.result = "InvalidEdge"
    /\ \A i \in DOMAIN list : list[i].valid => list[i] \in r.inner.edges
    /\ \A i \in DOMAIN list : ~list[i].valid =>
            ~\E x \in r.inner.edges : x.key = list[i].key

ValidNew == {e \in ListEdges(call.list) : verify_edge(e) /\ ~has(call.old, e)}

\* C4: when the batch has an invalid edge, verify returns all_ok = false and
\* accepts every valid edge that the snapshot does not dominate (an edge
\* counts as accepted when a valid edge of its key with the same or a higher
\* nonce is accepted), whatever invalid edges are in the batch.
C4_PartialAcceptance ==
    (ret # <<>> /\ \E e \in ListEdges(call.list) : ~verify_edge(e)) =>
        /\ ret.ok = FALSE
        /\ \A e \in ValidNew : has(ListEdges(ret.edges), e)

\* C7: verify of a list followed by itself accepts the same edges, each once,
\* and returns the same all_ok as verify of the list.
C7_DedupLaw ==
    ret # <<>> =>
        /\ ListEdges(verify(call.old, call.list \o call.list).edges) = ListEdges(ret.edges)
        /\ Len(verify(call.old, call.list \o call.list).edges) = Len(ret.edges)
        /\ verify(call.old, call.list \o call.list).ok = ret.ok

\* verify has returned for a list with a repeated edge, a dominated edge, an
\* accepted edge and an invalid one.
C7_Witness ==
    /\ ret # <<>>
    /\ Len(call.list) = MaxLen
    /\ \E i \in DOMAIN call.list : \E j \in DOMAIN call.list : i # j /\ call.list[i] = call.list[j]
    /\ \E i \in DOMAIN call.list : has(call.old, call.list[i])
    /\ ret.edges = <<>>
    /\ ret.ok

RECURSIVE Hops(_, _, _, _, _, _)
\* The length of a shortest path from the peers of frontier (at d hops) to
\* target in g that passes through no peer of U on its way; None without one.
Hops(g, U, frontier, seen, target, d) ==
    IF target \in frontier THEN d
    ELSE IF (UNION {g[p] : p \in frontier \ U}) \subseteq seen THEN None
    ELSE Hops(g, U, (UNION {g[p] : p \in frontier \ U}) \ seen,
              seen \cup UNION {g[p] : p \in frontier \ U}, target, d + 1)

\* H holds the peers that the local node reaches in g without passing through
\* a peer of U, each with neighbours of the local node on a shortest such path.
NextHopsShortest(H, g, U) ==
    /\ \A d \in (DOMAIN g) \ {node_id} :
            (d \in DOMAIN H /\ H[d] # {})
            <=> Hops(g, U, {node_id}, {node_id}, d, 0) # None
    /\ \A d \in DOMAIN H : \A n \in H[d] :
            /\ n \in g[node_id]
            /\ Hops(g, U, {n}, {n, node_id}, d, 0) # None
            /\ 1 + Hops(g, U, {n}, {n, node_id}, d, 0)
                    = Hops(g, U, {node_id}, {node_id}, d, 0)

\* C9: the next hops a pass returns hold a peer iff the local node reaches it
\* in the graph, each with neighbours of the local node on a shortest path to
\* it; a longer path gives no next hop, and several next hops are ties.
C9_ShortestPaths ==
    ret # <<>> => NextHopsShortest(ret.next_hops, ret.graph, {})

\* C9 (amended): the same, with the paths that pass through no unreliable
\* peer: a peer reached only through an unreliable peer has no next hop, and
\* the shortest paths are the shortest among those paths.
C9_ShortestReliablePaths ==
    ret # <<>> => NextHopsShortest(ret.next_hops, ret.graph, ret.unreliable)

\* A pass with an unreliable peer returned two next hops for a peer and a
\* single one for a peer that a longer path reaches too.
C9_Witness ==
    /\ ret # <<>>
    /\ \E d \in DOMAIN ret.next_hops : Cardinality(ret.next_hops[d]) = 2
    /\ \E d \in DOMAIN ret.next_hops :
            /\ ret.next_hops[d] = {d}
            /\ \E n \in ret.graph[node_id] : n # d /\ d \in ret.graph[n]
    /\ ret.unreliable # {}

\* C10: an unreliable peer is a next hop of itself only, and every next hop
\* of a peer leads to it by a path that passes through no unreliable peer.
C10_UnreliableNeverTransit ==
    ret # <<>> =>
        \A d \in DOMAIN ret.next_hops : \A n \in ret.next_hops[d] :
            /\ n \in ret.unreliable => n = d
            /\ Hops(ret.graph, ret.unreliable, {n}, {n, node_id}, d, 0) # None

\* A pass returned an unreliable neighbour as a destination and no next hop
\* for a peer that the graph connects through it only.
C10_Witness ==
    /\ ret # <<>>
    /\ \E p \in ret.unreliable :
            /\ p \in DOMAIN ret.next_hops
            /\ \E d \in ret.graph[p] : d # node_id /\ d \notin DOMAIN ret.next_hops

\* The edges of X are in the table L at their nonce or a newer one, but for
\* those older than prune_edges_after.
Restored(X, L) ==
    \A x \in X :
        \/ has(L, x)
        \/ config.prune_edges_after # None
            /\ is_edge_older_than(x, now - config.prune_edges_after)

\* The valid edges with the endpoint p whose delivery starts a pass.
FreshEdgesOf(p) ==
    {e \in ValidEdges(now) : p \in {e.key[1], e.key[2]} /\ ~has(snapshot, e)}

EvictionStores ==
    \A x \in edges :
        (\A y \in edges' : y.key # x.key) =>
            \/ config.prune_edges_after # None
                /\ is_edge_older_than(x, now - config.prune_edges_after)
            \/ \E p \in {x.key[1], x.key[2]} : has(store'[p], x)

LoadRestores ==
    \A p \in Peers \ ({node_id} \cup DOMAIN peer_reachable_at) :
        \A e \in FreshEdgesOf(p) :
            Restored(store[p],
                     update_routing_table(Inner, config, now, <<e>>,
                                          unreliable_peers).loaded)

InWindow(cfg, t) ==
    cfg.skip_tombstones # None /\ t < state_created_at + cfg.skip_tombstones

Tombstones(list) == {e \in ListEdges(list) : edge_type(e) = "Removed"}

\* The tombstones the pass applied are in E and not in G when the next hops
\* are computed, and none of them is sent.
TombstonesKeptBack(r) ==
    /\ Tombstones(r.broadcast) = {}
    /\ \A e \in Tombstones(r.edges) :
          e \in r.at_bfs /\ e.key \notin ActiveKeys(r.at_bfs)

\* C11: with skip_tombstones configured, what add_edges sends at a time
\* before the creation of NetworkState plus skip_tombstones holds no Removed
\* edge, and the Removed edges the call applied are in E and out of G.
C11_NoTombstoneInWindow ==
    InWindow(config, now) =>
        \A list \in Batches(now) :
            TombstonesKeptBack(add_edges(Inner, snapshot, config, now, list,
                                         unreliable_peers))

SendsWithoutTombstone(r) ==
    /\ Tombstones(r.edges) # {}
    /\ r.broadcast # <<>>
    /\ Tombstones(r.broadcast) = {}

C11_Witness ==
    /\ InWindow(config, now)
    /\ edges # {}
    /\ \E list \in Batches(now) :
          SendsWithoutTombstone(add_edges(Inner, snapshot, config, now, list,
                                          unreliable_peers))

\* The valid tombstones that can arrive at time t for an Active edge that is
\* held: the same key, a higher and even nonce.
TombstonesOf(x, t) ==
    {e \in ValidEdges(t) :
        e.key = x.key /\ e.nonce > x.nonce /\ edge_type(e) = "Removed"}

\* The peers the local node reaches in g without the edge of key k.
ReachableWithout(g, k) == Closure(graph_remove_edge(g, k[1], k[2]), {node_id})

\* What the pass that applied the tombstone e computed: k is out of G, and
\* no peer that was reachable through k only has next hops.
TombstoneRemoved(r, e, before) ==
    /\ e.key \notin ActiveKeys(r.at_bfs)
    /\ e.key \notin GraphKeys(r.inner.graph)
    /\ \A d \in Peers \ ReachableWithout(before, e.key) :
          d \notin DOMAIN r.next_hops

TombstoneHeld(r, e) == e \in r.inner.edges

TombstoneSent(r, e, cfg, t) ==
    InWindow(cfg, t) \/ e \in ListEdges(r.broadcast)

TombstoneApplied(r, e, before, cfg, t) ==
    /\ TombstoneRemoved(r, e, before)
    /\ TombstoneHeld(r, e)
    /\ TombstoneSent(r, e, cfg, t)

NoWindow(cfg) == [cfg EXCEPT !.skip_tombstones = None]

SeenLately(inner, cfg, t, e) ==
    \A p \in {e.key[1], e.key[2]} \ {node_id} :
        /\ p \in DOMAIN inner.peer_reachable_at
        /\ inner.peer_reachable_at[p] >= t - cfg.prune_unreachable_peers_after

\* The pass evicted an endpoint of e and wrote e to the store under it.
TombstoneEvicted(r, e) ==
    /\ e.key \notin {x.key : x \in r.inner.edges}
    /\ \E p \in {e.key[1], e.key[2]} :
          p \in r.pruned_peers /\ e \in r.inner.store[p]

TombstoneAppliedOrEvicted(r, e, seen, before, cfg, t) ==
    /\ TombstoneRemoved(r, e, before)
    /\ TombstoneSent(r, e, cfg, t)
    /\ TombstoneHeld(r, e) \/ TombstoneEvicted(r, e)
    /\ seen => TombstoneHeld(r, e)

CutsOff(r, e, before) ==
    /\ e \in ListEdges(r.broadcast)
    /\ TombstoneHeld(r, e)
    /\ ReachableWithout(before, e.key) # Closure(before, {node_id})

ChainBuilt == ActiveKeys(edges) = ChainKeys

\* The next hops of the chain: every peer through B.
ChainHops == [d \in {2, 3, 4} |-> {2}]

PassEvicts(u, peers) == peers \subseteq u.pruned_peers

ChainKept(u) == u.pruned_peers = {} /\ u.next_hops = ChainHops

\* The edges (B,C) and (C,D) are stored under B, and B is not in R.
ChainStored ==
    /\ 2 \notin DOMAIN peer_reachable_at
    /\ \A k \in {<<2, 3>>, <<3, 4>>} :
          \E e \in store[2] : e.key = k /\ edge_type(e) = "Active"

\* The pass loaded (B,C) and (C,D) and routes every peer through B.
ChainLoaded(u) ==
    /\ {<<2, 3>>, <<3, 4>>} \subseteq ActiveKeys(u.loaded)
    /\ u.next_hops = ChainHops

\* The edges with an endpoint among peers.
Incident(set, peers) == {e \in set : e.key[1] \in peers \/ e.key[2] \in peers}

OldEdges(set, cfg, t) ==
    {e \in set : is_edge_older_than(e, t - cfg.prune_edges_after)}

\* The peers the local node reaches by the Active edges of set.
ReachedBy(set) == Closure(Connect(EmptyGraph, ActiveKeys(set)), {node_id})

\* What a pass at time t left of the old edges: none in E when the next hops
\* are computed, none in E and G when it returns, no next hop that needs
\* one, and none in the store that was not stored before the pass.
OldEdgesPruned(u, before, cfg, t) ==
    /\ OldEdges(u.at_bfs, cfg, t) = {}
    /\ OldEdges(u.inner.edges, cfg, t) = {}
    /\ GraphKeys(u.inner.graph) \subseteq ActiveKeys(u.inner.edges \ OldEdges(before.edges, cfg, t))
    /\ DOMAIN u.next_hops \subseteq ReachedBy(u.at_bfs \ OldEdges(u.at_bfs, cfg, t))
    /\ \A p \in Peers :
          OldEdges(u.inner.store[p], cfg, t) \subseteq before.store[p]

\* C14: with prune_edges_after configured, every pass (also with an empty
\* batch) removes from E and G every edge created before now -
\* prune_edges_after before it computes the next hops, which use none of
\* them, and writes none of them to the component store.
C14_AgePruning ==
    config.prune_edges_after # None =>
        \A list \in Batches(now) \cup {<<>>} :
            OldEdgesPruned(update_routing_table(Inner, config, now, list,
                                                unreliable_peers),
                           Inner, config, now)

\* Nothing is left of a table of old edges.
AllPruned(u) == u.inner.edges = {} /\ u.next_hops = <<>> /\ u.inner.graph = EmptyGraph

\* Every edge held is Active, reached and old, and the periodic pass leaves
\* an empty table and no next hops.
C14_Witness ==
    /\ config.prune_edges_after # None
    /\ edges # {}
    /\ OldEdges(edges, config, now) = edges
    /\ \E e \in edges : edge_type(e) = "Active" /\ node_id = e.key[1]
    /\ AllPruned(update_routing_table(Inner, config, now, <<>>, unreliable_peers))

\* The pass run at time t has stamped the local node and every destination
\* of its next hops.
Refreshed(u, t) ==
    \A p \in {node_id} \cup DOMAIN u.next_hops :
        /\ p \in DOMAIN u.inner.peer_reachable_at
        /\ u.inner.peer_reachable_at[p] = t

\* C15: at the end of every pass run at time now, R[local] = now and
\* R[p] = now for every destination p of the H the pass returned.
C15_ReachabilityRefreshed ==
    \A list \in Batches(now) \cup {<<>>} :
        Refreshed(update_routing_table(Inner, config, now, list, unreliable_peers),
                  now)

\* The pass has next hops for every other peer.
ReachesAll(u) == DOMAIN u.next_hops = Peers \ {node_id}

\* Every other peer was stamped at an earlier time and is a destination of
\* the next hops of the periodic pass.
C15_Witness ==
    /\ now > 0
    /\ \A p \in Peers \ {node_id} :
          p \in DOMAIN peer_reachable_at /\ peer_reachable_at[p] < now
    /\ ReachesAll(update_routing_table(Inner, config, now, <<>>, unreliable_peers))

\* The call of caller c in flight, and the number of results it got.
InFlight(c) == call.sub[c].state # "idle"

\* A call that the demultiplexer answered was in a batch that holds all its
\* verified edges, and every caller got one result per call that returned.
DemuxKeepsEdges ==
    \A c \in Callers :
        /\ call.sub[c].state = "answered" =>
              /\ ListEdges(call.sub[c].edges) \subseteq ListEdges(call.sub[c].batch)
              /\ call.sub[c].edges # <<>>
        /\ ret[c].n = IF InFlight(c) THEN call.sub[c].n - 1 ELSE call.sub[c].n

\* A call leaves the queue only in a step that applies a pass given its
\* edges and publishes the table of that pass, and a caller is handed the
\* verdict of its own verification.
DemuxAnswers ==
    \A c \in Callers :
        /\ (call.sub[c].state = "queued" /\ call'.sub[c].state # "queued") =>
              /\ call'.sub[c].state = "answered"
              /\ ListEdges(call.sub[c].edges) \subseteq ListEdges(call'.sub[c].batch)
              /\ snapshot' = edges'
              /\ \A e \in ListEdges(call.sub[c].edges) :
                    has(edges', e) \/ \E p \in Peers : has(store'[p], e)
        /\ ret'[c].n > ret[c].n =>
              /\ ret'[c].n = ret[c].n + 1
              /\ call.sub[c].state = "answered" \/ call.sub[c].edges = <<>>
              /\ call.sub[c].state = "answered" =>
                    ret'[c].result = result_of(call.sub[c].ok)

SnapshotOfPass ==
    /\ snapshot = call.last
    /\ call.pc = "idle" => snapshot = edges

\* load() returns the table of the last completed pass, and the passes whose
\* tables successive loads return never go backward.
LoadsOfPass ==
    ret' # ret =>
        /\ ret'.table = call.last
        /\ ret'.version = call.version
        /\ ret # <<>> => ret'.version >= ret.version

\* C17: the table load() returns is the E of Inner at the end of a completed
\* pass (or the initial empty table), never that of a pass in progress, and
\* successive loads never return the table of an earlier pass after that of
\* a later one.
C17_SnapshotConsistent == []SnapshotOfPass /\ [][LoadsOfPass]_vars

\* load() was called while a pass held the lock and the table of Inner was
\* neither what the pass started from nor what it ends with.
C17_Witness ==
    /\ ret # <<>>
    /\ ret.pc = "reached"
    /\ call.pc = "reached"
    /\ ret.version = 2
    /\ edges # snapshot
    /\ edges # call.next
    /\ ret.table = snapshot

\* The tables in memory.
InMemory(inner) == [edges |-> inner.edges, graph |-> inner.graph,
                    peer_reachable_at |-> inner.peer_reachable_at]

\* inner with nothing stored under the peers of failing.
WithoutComponents(inner, failing) ==
    [inner EXCEPT !.store = [p \in DOMAIN inner.store |->
                                IF p \in failing THEN {} ELSE inner.store[p]]]

\* Without faults the pass is update_routing_table; a failed push leaves in
\* memory what a successful push leaves, and the store as it was unless a
\* component was popped; a failed pop leaves in memory what a pass leaves
\* that finds nothing stored under the peer.
FaultsAbsorbed(inner, cfg, t, list, unreliable, failing) ==
    /\ update_routing_table_io(inner, cfg, t, list, unreliable, {}, TRUE)
          = update_routing_table(inner, cfg, t, list, unreliable).inner
    /\ InMemory(update_routing_table_io(inner, cfg, t, list, unreliable, failing, FALSE))
          = InMemory(update_routing_table_io(inner, cfg, t, list, unreliable, failing, TRUE))
    /\ InMemory(update_routing_table_io(inner, cfg, t, list, unreliable, failing, TRUE))
          = InMemory(update_routing_table_io(WithoutComponents(inner, failing), cfg, t,
                                             list, unreliable, {}, TRUE))

\* C18: a pass absorbs the faults of the storage: a failed pop_component is
\* a component that is empty, and after a failed push_component E, G and R
\* are what they are after a successful one.
C18_FaultsAbsorbed ==
    \A list \in FaultLists(now) :
        \A failing \in SUBSET (Peers \ {node_id}) :
            FaultsAbsorbed(Inner, config, now, list, unreliable_peers, failing)

\* The last pass had a pop that failed for a peer with a stored component and
\* a push that failed for peers it evicted.
C18_Witness ==
    /\ call # <<>>
    /\ call.pop_failed
    /\ call.push_failed

\* The nonces the snapshot holds for the edge between the local node and peer.
LocalNonces(peer) ==
    {e.nonce : e \in {x \in snapshot : x.key = <<node_id, peer>>}}

\* A call of propose_edge returns the nonce it was given, or without one
\* nonce 1 when the snapshot has no edge to the peer and the nonce of that
\* edge plus 2 when it has; it changes no table and not the store.
ProposesNext ==
    ret' # ret =>
        /\ ret'.edge.peer = ret'.peer
        /\ ret'.with_nonce # None => ret'.edge.nonce = ret'.with_nonce
        /\ (ret'.with_nonce = None /\ LocalNonces(ret'.peer) = {}) =>
              ret'.edge.nonce = 1
        /\ ret'.with_nonce = None =>
              \A n \in LocalNonces(ret'.peer) : ret'.edge.nonce = n + 2
        /\ UNCHANGED <<edges, graph, peer_reachable_at, store, snapshot>>

\* C19: propose_edge(peer, None) uses nonce 1 when the snapshot holds no edge
\* between the local node and peer and the held nonce + 2 otherwise,
\* propose_edge(peer, Some(n)) uses n, and E, G, R and the store are not
\* modified.
C19_ProposeEdgeNonce == [][ProposesNext]_vars

\* propose_edge without a nonce returned nonce 3 for a peer whose edge is
\* held with nonce 1.
C19_Witness ==
    /\ ret # <<>>
    /\ ret.with_nonce = None
    /\ ret.edge.nonce = 3
    /\ LocalNonces(ret.peer) = {1}
    /\ \E e \in edges : edge_type(e) = "Removed"

\* ---------------------------------------------------------------- C20
IsSet == call # <<>> /\ call.op = "set"

Overlong == Len(call.data) > config.max_register_size

AtLimit == Cardinality(DOMAIN call.before) >= config.max_number_registers

WithinLimits ==
    /\ Cardinality(DOMAIN registers) <= config.max_number_registers
    /\ \A i \in DOMAIN registers : Len(registers[i]) <= config.max_register_size

\* C20 as stated: a set with overlong data, or made when the number of
\* registers is already at max_number_registers (a replacement included),
\* fails with MemoryAccessViolation, and the registers stay within the
\* count and size limits.
C20_SetLimits ==
    /\ IsSet /\ (Overlong \/ AtLimit) => ret = "MemoryAccessViolation"
    /\ WithinLimits

\* C20 amended: the gas of the write is paid first, and a failed payment is
\* the error returned; when the gas is paid an overlong or at-limit set fails
\* with MemoryAccessViolation.  Either way such a set does not succeed and
\* leaves the registers as they were, and the registers stay within the
\* count and size limits.
C20_SetLimitsWhenPaid ==
    /\ IsSet /\ (Overlong \/ AtLimit) =>
        /\ ret = (IF call.paid THEN "MemoryAccessViolation" ELSE "GasExceeded")
        /\ registers = call.before
    /\ WithinLimits

\* A paid replacement of an existing register was refused at the count limit.
C20_Witness ==
    /\ IsSet
    /\ call.paid
    /\ AtLimit
    /\ ~Overlong
    /\ call.register_id \in DOMAIN call.before
    /\ usage(registers_insert(call.before, call.register_id, call.data))
        <= config.registers_memory_limit
    /\ ret = "MemoryAccessViolation"

\* ---------------------------------------------------------------- C21
LimitsMet ==
    /\ Len(call.data) <= config.max_register_size
    /\ Cardinality(DOMAIN call.before) < config.max_number_registers

\* The usage the register file has when the call has stored its data.
ResultingUsage == usage(registers_insert(call.before, call.register_id, call.data))

ReplacesNoLonger ==
    /\ call.register_id \in DOMAIN call.before
    /\ Len(call.before[call.register_id]) >= Len(call.data)

\* C21: for a set whose gas is paid and that meets the count and size
\* limits, with usage the sum over the registers of 8 + data length: when the
\* resulting usage exceeds registers_memory_limit the set returns
\* MemoryAccessViolation, and when it replaces a register by a value that is
\* no longer, or the resulting usage is within the limit, it succeeds.
C21_UsageLimit ==
    IsSet /\ call.paid /\ LimitsMet =>
        /\ ResultingUsage > config.registers_memory_limit =>
                ret = "MemoryAccessViolation"
        /\ ReplacesNoLonger \/ ResultingUsage <= config.registers_memory_limit =>
                ret = "Ok"

\* ---------------------------------------------------------------- C22
IsGet == call # <<>> /\ call.op = "get"

IsGetLen == call # <<>> /\ call.op = "get_len"

\* A register id enters the register file only by a set of that id, so an id
\* that is present has been set and an id never set is absent.
OnlySetAdds ==
    \A i \in RegisterIds :
        i \notin DOMAIN registers /\ i \in DOMAIN registers' =>
            call'.op = "set" /\ call'.register_id = i

\* Reads of an absent id: InvalidRegisterId / None and no fee asked.
AbsentReads ==
    /\ IsGet /\ call.register_id \notin DOMAIN call.before =>
        /\ ret = [kind |-> "InvalidRegisterId", register_id |-> call.register_id]
        /\ fees = <<>>
    /\ IsGetLen /\ call.register_id \notin DOMAIN call.before =>
        ret = None /\ fees = <<>>

\* A successful set(id, v) holds v under id and leaves every other id alone.
SetStores ==
    IsSet /\ ret = "Ok" =>
        /\ call.register_id \in DOMAIN registers
        /\ registers[call.register_id] = call.data
        /\ \A i \in RegisterIds \ {call.register_id} :
            /\ i \in DOMAIN registers <=> i \in DOMAIN call.before
            /\ i \in DOMAIN registers => registers[i] = call.before[i]

ReadsSet == IsSet /\ ret = "Ok" /\ call'.register_id = call.register_id

\* The read that follows a successful set(id, v): get(id) returns v.
GetReturnsSet ==
    ReadsSet /\ call'.op = "get" => ret' = [kind |-> "Ok", data |-> call.data]

\* The same when the gas of the read is paid; otherwise the gas error.
GetReturnsSetWhenPaid ==
    ReadsSet /\ call'.op = "get" =>
        ret' = (IF call'.paid THEN [kind |-> "Ok", data |-> call.data]
                ELSE [kind |-> "GasExceeded"])

\* get_len(id) after a successful set(id, v) returns the length of v and asks
\* no fee; no read changes the register file.
GetLenReturnsSet ==
    /\ ReadsSet /\ call'.op = "get_len" => ret' = Len(call.data) /\ fees' = <<>>
    /\ call'.op \in {"get", "get_len"} => registers' = registers

AnyEdges(t) == [key : EdgeKey, nonce : 1..MaxNonce, valid : BOOLEAN, created_at : 0..t]

Dominated(inner, e) == \E x \in inner.edges : x.key = e.key /\ x.nonce >= e.nonce

TooOld(cfg, t, e) ==
    cfg.prune_edges_after # None /\ e.created_at < t - cfg.prune_edges_after

Rejected(inner, u) == ~u.added /\ u.inner = inner

\* u is what update_edge returned for e on inner: e is the entry of its key,
\* the key is in G iff e is Active, and the other keys are as they were.
Replaced(inner, e, u) ==
    /\ u.added
    /\ {x \in u.inner.edges : x.key = e.key} = {e}
    /\ {x \in u.inner.edges : x.key # e.key} = {x \in inner.edges : x.key # e.key}
    /\ e.key \in GraphKeys(u.inner.graph) <=> edge_type(e) = "Active"
    /\ GraphKeys(u.inner.graph) \ {e.key} = GraphKeys(inner.graph) \ {e.key}

NonceFiltered(inner, cfg, t, e, u) ==
    IF Dominated(inner, e) THEN Rejected(inner, u)
    ELSE TooOld(cfg, t, e) \/ Replaced(inner, e, u)

NonceFilter(inner, cfg, t) ==
    \A e \in AnyEdges(t) : NonceFiltered(inner, cfg, t, e, update_edge(inner, cfg, t, e))

\* C23: on the table a pass starts from, and on the table it has after the
\* components of an edge's endpoints are loaded, update_edge of an edge whose
\* key is held at a nonce >= the edge's returns false and changes neither E
\* nor G; otherwise, if the age filter passes, it returns true, the edge is
\* the entry of its key, and G has the key iff the edge is Active.
C23_NonceFilter ==
    /\ NonceFilter(Inner, config, now)
    /\ \A e \in IncomingEdges(now) :
        NonceFilter(load_components(Inner, config, now, <<e>>), config, now)

\* A tombstone is held and out of G, an older Active edge of its key is
\* rejected, and an Active edge of another key is held and in G.
C23_Witness ==
    \E e \in edges, x \in edges :
        /\ edge_type(e) = "Removed" /\ e.key \notin GraphKeys(graph)
        /\ ~update_edge(Inner, config, now, [e EXCEPT !.nonce = 1]).added
        /\ edge_type(x) = "Active" /\ x.key \in GraphKeys(graph)

\* ---------------------------------------------------------------- C24
IsPass == ret # <<>>

PoppedEdges == UNION {ret.popped[p] : p \in DOMAIN ret.popped}

\* update_edge rejects every edge that is too old, on the table Inner holds.
OldRejected(inner, cfg, t) ==
    \A e \in AnyEdges(t) :
        TooOld(cfg, t, e) => Rejected(inner, update_edge(inner, cfg, t, e))

\* The pass that returned: no incoming edge that was too old is in the
\* applied list, no edge that was too old, incoming or popped, was added to
\* the table by the loading (it is there only if it was held before), and none
\* is in the table after the pass.
OldKeptOut ==
    /\ \A e \in ListEdges(ret.list) :
        TooOld(config, ret.now, e) => e \notin ListEdges(ret.edges)
    /\ \A e \in ListEdges(ret.list) \cup PoppedEdges :
        TooOld(config, ret.now, e) =>
            /\ e \in ret.loaded => e \in ret.before
            /\ e \notin ret.at_bfs /\ e \notin edges

\* No applied edge is removed by the age pruning of the same pass: it is in
\* the table after that step, unless a later edge of the list replaced it.
AppliedSurvive ==
    \A e \in ListEdges(ret.edges) :
        /\ ~TooOld(config, ret.now, e)
        /\ \/ e \in ret.at_bfs
           \/ \E x \in ListEdges(ret.edges) : x.key = e.key /\ x.nonce > e.nonce

\* C24: with prune_edges_after configured, update_edge rejects an edge older
\* than now - prune_edges_after (false, E and G unchanged), be it incoming or
\* rehydrated from the store, and no edge of the applied list of a pass is
\* removed by the prune_old_edges step of that pass.
C24_AgeFilter ==
    /\ OldRejected(Inner, config, now)
    /\ IsPass => OldKeptOut /\ AppliedSurvive

\* A pass was given an edge that was too old next to one that was not, and it
\* popped an edge from the store that was too old: only the edge that was not
\* too old was applied, and it is in the table after the age pruning.
C24_Witness ==
    /\ IsPass
    /\ \E e \in ListEdges(ret.list) : TooOld(config, ret.now, e)
    /\ \E e \in PoppedEdges : TooOld(config, ret.now, e)
    /\ \E e \in ListEdges(ret.edges) : e \in ret.at_bfs /\ e.created_at < ret.now
    /\ Len(ret.list) = 2 /\ Len(ret.edges) = 1

\* ---------------------------------------------------------------- C25
\* The components popped for the endpoints of e.
ComponentsOf(e) == UNION {ret.popped[p] : p \in {e.key[1], e.key[2]} \cap DOMAIN ret.popped}

\* The key of e is stored in the component of an evicted endpoint of e at a
\* nonce >= the nonce of e.
StoredNewer(e) == \E x \in ComponentsOf(e) : x.key = e.key /\ x.nonce >= e.nonce

\* The same, by a stored edge that the age filter lets in.
StoredNewerInTime(e) ==
    \E x \in ComponentsOf(e) :
        x.key = e.key /\ x.nonce >= e.nonce /\ ~TooOld(config, ret.now, x)

\* What add_edges sends of the applied list of the pass.
SentOfPass ==
    ListEdges(broadcast_routing_table_update(
                  skip_tombstones_retain(config, ret.now, ret.edges)))

NotApplied(e) == e \notin ListEdges(ret.edges) /\ e \notin SentOfPass

\* No edge the loading added to the table is in the applied list, at its
\* nonce or a lower one.
RehydratedNotApplied ==
    \A x \in ret.loaded \ ret.before :
        \A e \in ListEdges(ret.edges) : ~(e.key = x.key /\ e.nonce <= x.nonce)

Unreachable(inner, threshold) ==
    {p \in Peers :
        /\ \E e \in inner.edges : p \in {e.key[1], e.key[2]}
        /\ \/ p \notin DOMAIN inner.peer_reachable_at
           \/ inner.peer_reachable_at[p] < threshold}

Touches(k, P) == k[1] \in P \/ k[2] \in P

\* r is what prune_unreachable_peers left of inner, P the peers selected.
Evicted(inner, P, r) ==
    /\ DOMAIN r.peer_reachable_at = (DOMAIN inner.peer_reachable_at) \ P
    /\ \A p \in DOMAIN r.peer_reachable_at :
        r.peer_reachable_at[p] = inner.peer_reachable_at[p]
    /\ r.edges = {e \in inner.edges : ~Touches(e.key, P)}
    /\ GraphKeys(r.graph) = {k \in GraphKeys(inner.graph) : ~Touches(k, P)}
    /\ r.store = [p \in Peers |->
                    IF p \in P THEN {e \in inner.edges : Touches(e.key, P)}
                    ELSE inner.store[p]]

PruneEffect(inner, P, r) == IF P = {} THEN r = inner ELSE Evicted(inner, P, r)

Pruned(inner, threshold) ==
    PruneEffect(inner, Unreachable(inner, threshold),
                prune_unreachable_peers(inner, threshold))

\* The table of the periodic pass when it reaches prune_unreachable_peers.
Reached == reachable_stamped(edges_applied(Inner, config, now, <<>>), now,
                             unreliable_peers)

\* C26: prune_unreachable_peers(threshold), applied to the table Inner holds
\* with any threshold and to the table of the periodic pass with its own,
\* selects exactly the endpoints of edges of E whose R entry is missing or
\* older than threshold; it takes them out of R, takes their edges out of E
\* and G, writes exactly those edges under each of them with one
\* push_component, and leaves the other edges, R entries and components; with
\* nobody selected it changes nothing.
C26_PruneUnreachable ==
    /\ \A threshold \in 0..(MaxTime + 1) : Pruned(Inner, threshold)
    /\ Pruned(Reached, now - config.prune_unreachable_peers_after)

\* The periodic pass is about to evict a peer whose R entry is too old, with
\* its edge, while it keeps another edge and its peers.
C26_Witness ==
    \E p \in Unreachable(Reached, now - config.prune_unreachable_peers_after) :
        /\ p \in DOMAIN peer_reachable_at
        /\ prune_unreachable_peers(Reached,
                now - config.prune_unreachable_peers_after).edges # {}
        /\ prune_unreachable_peers(Reached,
                now - config.prune_unreachable_peers_after).store[p] # store[p]

\* ---------------------------------------------------------------- C27
\* The local node and the destinations of the next hops of pass u.
ReachedPeers(u) == {node_id} \cup DOMAIN u.next_hops

\* No reached peer was selected for eviction or taken out of R.
ReachedKept(u) ==
    \A p \in ReachedPeers(u) :
        p \notin u.pruned_peers /\ p \in DOMAIN u.inner.peer_reachable_at

\* The edges the eviction of pass u took out of the table.
EvictedEdges(u) == u.at_bfs \ u.inner.edges

\* No edge of a reached peer was evicted.
ReachedEdgesKept(u) ==
    \A e \in EvictedEdges(u) : ~Touches(e.key, ReachedPeers(u))

\* An evicted edge has an endpoint that was selected, and no edge between two
\* reached peers was evicted.
ReachedEdgesKeptBetween(u) ==
    \A e \in EvictedEdges(u) :
        /\ Touches(e.key, u.pruned_peers)
        /\ ~(e.key[1] \in ReachedPeers(u) /\ e.key[2] \in ReachedPeers(u))

\* C27 as stated: in every pass, neither the local node nor any destination
\* of the H of the pass is removed from R or has its edges evicted by the
\* prune_unreachable_peers step of the pass.
C27_ReachedSurvive ==
    \A list \in Batches(now) \cup {<<>>} :
        /\ ReachedKept(update_routing_table(Inner, config, now, list, unreliable_peers))
        /\ ReachedEdgesKept(update_routing_table(Inner, config, now, list,
                                                 unreliable_peers))

\* C27 amended: no such peer is removed from R or selected for eviction, and
\* no edge between two of them is evicted; an edge is evicted only with an
\* endpoint that was selected, which may be an edge of a reached peer.
C27_ReachedSurviveBetween ==
    \A list \in Batches(now) \cup {<<>>} :
        /\ ReachedKept(update_routing_table(Inner, config, now, list, unreliable_peers))
        /\ ReachedEdgesKeptBetween(update_routing_table(Inner, config, now, list,
                                                        unreliable_peers))

\* The periodic pass reaches a peer that was stamped two ticks ago and evicts
\* another peer: the first stays in R with its edge to the local node.
ReachedLate(u) ==
    \E p \in DOMAIN u.next_hops :
        /\ p \in DOMAIN peer_reachable_at
        /\ peer_reachable_at[p] < now - config.prune_unreachable_peers_after
        /\ u.pruned_peers # {}
        /\ \E e \in u.inner.edges : e.key = <<node_id, p>>

C27_Witness ==
    ReachedLate(update_routing_table(Inner, config, now, <<>>, unreliable_peers))

\* ---------------------------------------------------------------- C28
Passing == {c \in Writers : call.sub[c].pc \in InPass}

\* At most one pass is in progress, and it is the pass of the task that holds
\* the lock.
OnePass ==
    /\ Cardinality(Passing) <= 1
    /\ \A c \in Writers : c \in Passing <=> call.owner = c

\* With no pass in progress the table of Inner is the published snapshot.
PublishedWhenFree == Passing = {} => snapshot = edges

\* A pass that has stored its snapshot has left Inner as a pass that nobody
\* interferes with leaves it, and the snapshot is its table.
PassComplete ==
    \A c \in Writers :
        call.sub[c].pc = "stored" => Inner = call.sub[c].next /\ snapshot = edges

\* A pass starts only when no other pass is in progress and the table of
\* Inner is published.
StartsAfterPublished ==
    \A c \in Writers :
        call.sub[c].pc # "locked" /\ call'.sub[c].pc = "locked" =>
            Passing = {} /\ snapshot = edges

\* Inner is changed only by the pass in progress.
OnlyPassWrites == Inner' # Inner => Passing # {} /\ Passing' = Passing

\* C28: at most one pass executes on Inner at any time, also while a pass is
\* suspended between the loads of two components; a pass starts only after
\* the pass before it has finished all its steps and published its snapshot,
\* and every pass leaves Inner as a pass run alone from the state it locked
\* leaves it.
C28_SingleWriter ==
    /\ [](OnePass /\ PublishedWhenFree /\ PassComplete)
    /\ [][StartsAfterPublished /\ OnlyPassWrites]_vars

\* A pass is suspended after it rehydrated a component, its table not yet
\* published, while the other task waits for the lock.
C28_Witness ==
    \E c \in Writers, d \in Writers :
        /\ call.sub[c].pc = "locked"
        /\ call.sub[c].todo = <<>>
        /\ edges # snapshot
        /\ call.sub[d].pc = "waiting"
        /\ call.sub[d].list # <<>>

\* The positions of the sent list that deduplication keeps: the first edge of
\* the largest nonce of its key.
KeptByDedup ==
    {i \in DOMAIN call.list :
        \A j \in DOMAIN call.list :
            call.list[j].key = call.list[i].key =>
                \/ call.list[j].nonce < call.list[i].nonce
                \/ (call.list[j].nonce = call.list[i].nonce /\ i <= j)}

\* The snapshot taken at the start of the call holds the key of e with the
\* nonce of e or a higher one.
DominatedBySnapshot(e) ==
    \E x \in call.old : x.key = e.key /\ x.nonce >= e.nonce

\* The edges that remain after the filter, and the edges of the list that it drops.
Remaining == {call.list[i] : i \in {k \in KeptByDedup : ~DominatedBySnapshot(call.list[k])}}
DroppedPositions ==
    {i \in DOMAIN call.list : i \notin KeptByDedup \/ DominatedBySnapshot(call.list[i])}

\* The list without its dropped positions, every dropped edge being replaced
\* by an edge of the same key and nonce with the other signature state.
Resigned(list) ==
    [i \in DOMAIN list |->
        IF i \in DroppedPositions THEN [list[i] EXCEPT !.valid = ~list[i].valid]
        ELSE list[i]]

\* C29: verify keeps one edge per key, the one of the largest nonce, and drops
\* the edges that the snapshot taken at the start of the call dominates: the
\* accepted edges are the remaining edges that verify, one per key at most,
\* all_ok is true iff every remaining edge verifies, and the signatures of
\* the dropped edges change neither accepted nor all_ok.
C29_PreFilter ==
    ret # <<>> =>
        /\ ListEdges(ret.edges) = {e \in Remaining : verify_edge(e)}
        /\ \A i \in DOMAIN ret.edges : \A j \in DOMAIN ret.edges :
               ret.edges[i].key = ret.edges[j].key => i = j
        /\ \A e \in ListEdges(ret.edges) : ~DominatedBySnapshot(e)
        /\ ret.ok = (\A e \in Remaining : verify_edge(e))
        /\ \A i \in DroppedPositions : call.list[i] \notin ListEdges(ret.edges) \ Remaining
        /\ verify(call.old, Resigned(call.list)) = ret

\* verify has returned all_ok with one accepted edge for a list that also
\* holds a tampered edge of a lower nonce of the accepted key and a tampered
\* edge that the snapshot dominates.
C29_Witness ==
    /\ ret # <<>>
    /\ ret.ok
    /\ Len(ret.edges) = 1
    /\ \E i \in DOMAIN call.list :
           /\ i \notin KeptByDedup
           /\ ~verify_edge(call.list[i])
           /\ call.list[i].key = ret.edges[1].key
    /\ \E i \in DOMAIN call.list :
           /\ DominatedBySnapshot(call.list[i])
           /\ ~verify_edge(call.list[i])

\* The step is a run of add_edges: the clock and the connections are as
\* they were, and ret' is what the run recorded.
AddEdgesStep == call' = call /\ now' = now /\ ret' # <<>>

\* update_edge returned true for the edge at position i of the batch: no
\* edge of its key with its nonce or a higher one was in the table after
\* the components were loaded, nor earlier in the batch.
AppliedAt(r, i) ==
    /\ \A x \in r.loaded : x.key = r.batch[i].key => x.nonce < r.batch[i].nonce
    /\ \A j \in 1..(i - 1) :
           r.batch[j].key = r.batch[i].key => r.batch[j].nonce < r.batch[i].nonce

AppliedOfBatch(r) == {r.batch[i] : i \in {k \in DOMAIN r.batch : AppliedAt(r, k)}}

\* update_edge returned true for these edges when the pass loaded their
\* components from the store.
AppliedOfStore(r, before) == r.loaded \ before

\* S without its Removed edges inside the skip_tombstones window, reduced
\* to the edge of the largest nonce of each key.
WithoutTombstones(S, cfg, t) ==
    IF InWindow(cfg, t) THEN {e \in S : edge_type(e) = "Active"} ELSE S

Payload(S, cfg, t) ==
    {e \in WithoutTombstones(S, cfg, t) :
        \A x \in WithoutTombstones(S, cfg, t) : x.key = e.key => x.nonce <= e.nonce}

\* Every connection of ready was sent one message, the edges of S with each
\* key once; with S empty no connection was sent anything.
SentTo(sent, ready, S) ==
    IF S = {} THEN DOMAIN sent = {}
    ELSE /\ DOMAIN sent = ready
         /\ \A conn \in ready :
               /\ ListEdges(sent[conn]) = S
               /\ Len(sent[conn]) = Cardinality(S)

\* With no verified edge nothing is updated and nothing is sent.
NothingVerified ==
    ret'.batch = <<>> =>
        /\ UNCHANGED <<edges, graph, peer_reachable_at, store, snapshot>>
        /\ DOMAIN ret'.sent = {}

\* C30 as stated: the message holds every edge update_edge returned true for
\* in the pass, those of the batch and those loaded from the store.
SendsAllApplied ==
    AddEdgesStep =>
        /\ SentTo(ret'.sent, call.ready,
                  Payload(AppliedOfBatch(ret') \cup AppliedOfStore(ret', edges), config, now))
        /\ NothingVerified

C30_BroadcastPayload == [][SendsAllApplied]_vars

\* The message holds the edges of the batch that update_edge returned true for.
SendsAppliedOfBatch ==
    AddEdgesStep =>
        /\ ListEdges(ret'.applied) = AppliedOfBatch(ret')
        /\ SentTo(ret'.sent, call.ready, Payload(AppliedOfBatch(ret'), config, now))
        /\ NothingVerified

\* C30 (amended): every ready connection is sent the edges of the batch for
\* which update_edge returned true, without the Removed ones inside the
\* skip_tombstones window and with the largest nonce only of each key; no
\* message is sent when these are none; the edges that the pass loads from
\* the store are not sent; with no verified edge there is no update and no
\* message.
C30_BroadcastPayloadOfBatch == [][SendsAppliedOfBatch]_vars

\* Two calls served together had two edges of one key applied, and both
\* ready connections were sent the one of the larger nonce.
C30_Witness ==
    /\ ret # <<>>
    /\ Len(ret.applied) = 2
    /\ ret.applied[1].key = ret.applied[2].key
    /\ DOMAIN ret.sent = Conns
    /\ \A conn \in Conns :
          Len(ret.sent[conn]) = 1 /\ ret.sent[conn][1] = ret.applied[2]

\* finalize_edge has returned.
Finalized == ret # <<>>

\* C31: finalize_edge returns InvalidEdge iff the edge it built fails
\* verification, and returns the edge it built otherwise.
C31_FinalizeResult ==
    Finalized =>
        /\ (ret.out.result = "InvalidEdge") = ~verify_edge(ret.built)
        /\ ret.out.result = "Ok" => ret.out.edge = ret.built

\* A call of finalize_edge that returns InvalidEdge leaves E, G, R, the store
\* and the snapshot as they were, and a call that returns Ok returns the
\* edge of the local node and the peer that it built.
FinalizeErrorKeepsGraph ==
    [][(call.pc = "idle" /\ ret' # <<>> /\ ret' # ret /\ ret'.out.result = "InvalidEdge") =>
           UNCHANGED <<edges, graph, peer_reachable_at, store, snapshot>>]_vars

FinalizeReturns ==
    Finalized =>
        /\ ret.out.result \in {"Ok", "InvalidEdge"}
        /\ ret.out.result = "InvalidEdge" => ~verify_edge(ret.built)
        /\ ret.out.result = "Ok" => ret.out.edge = ret.built /\ node_id \in {ret.built.key[1], ret.built.key[2]}

\* ---------------------------------------------------------------- C32
\* Peer p has no entry in R after the BFS of the call that returned r: it had
\* none before the call and the BFS did not reach it.
NoEntryAfterBfs(r, p) ==
    p \notin DOMAIN peer_reachable_at /\ p \notin ReachedPeers(r)

\* The edges held at the BFS of the call with an endpoint that has no entry
\* in R after it.
Stranded(r) ==
    {e \in r.at_bfs : \E p \in {e.key[1], e.key[2]} : NoEntryAfterBfs(r, p)}

\* The call took e out of E and G and wrote it to the store under each of
\* its endpoints that has no entry in R.
EvictedAtOnce(r, e) ==
    /\ e \notin r.inner.edges
    /\ e.key \notin GraphKeys(r.inner.graph)
    /\ \A p \in {e.key[1], e.key[2]} : NoEntryAfterBfs(r, p) => e \in r.inner.store[p]

AppliedAndSent(r, e) ==
    e \in ListEdges(r.edges) /\ e \in ListEdges(r.broadcast)

\* The edges of the batch that the call applied and still held at the BFS.
Accepted(r) == {e \in r.at_bfs : e \in ListEdges(r.edges)}

StrandedEvictedAndSent(r) ==
    r.updated =>
        /\ \A e \in Stranded(r) : EvictedAtOnce(r, e)
        /\ \A e \in Stranded(r) \cap Accepted(r) : AppliedAndSent(r, e)

SentUnlessTombstone(r, e, cfg, t) ==
    /\ e \in ListEdges(r.edges)
    /\ e \in ListEdges(r.broadcast) \/ (InWindow(cfg, t) /\ edge_type(e) = "Removed")
    /\ (InWindow(cfg, t) /\ edge_type(e) = "Removed") => e \notin ListEdges(r.broadcast)

StrandedEvictedSentUnlessTombstone(r, cfg, t) ==
    r.updated =>
        /\ \A e \in Stranded(r) : EvictedAtOnce(r, e)
        /\ \A e \in Stranded(r) \cap Accepted(r) : SentUnlessTombstone(r, e, cfg, t)

EndpointsFresh(inner, cfg, t) ==
    \A e \in inner.edges : \A p \in {e.key[1], e.key[2]} :
        /\ p \in DOMAIN inner.peer_reachable_at
        /\ inner.peer_reachable_at[p] >= t - cfg.prune_unreachable_peers_after

\* The time of the last completed pass: every pass stamps the local node.
LastPass == peer_reachable_at[node_id]

\* C33: between the passes both endpoints of every edge of E have an entry in
\* R that is not older than the time of the last pass minus
\* prune_unreachable_peers_after, and the same holds, with its own time, of
\* what every pass leaves, with incoming edges or without.
C33_EndpointsInR ==
    /\ edges # {} => node_id \in DOMAIN peer_reachable_at
    /\ edges # {} => EndpointsFresh(Inner, config, LastPass)
    /\ \A list \in Batches(now) :
          EndpointsFresh(add_edges(Inner, snapshot, config, now, list,
                                   unreliable_peers).inner,
                         config, IF add_edges(Inner, snapshot, config, now, list,
                                              unreliable_peers).updated
                                 THEN now ELSE 0)
    /\ EndpointsFresh(update_routing_table(Inner, config, now, <<>>,
                                           unreliable_peers).inner, config, now)

\* E holds an edge with an endpoint that the last pass did not reach and
\* whose entry in R is as old as prune_unreachable_peers_after allows.
C33_Witness ==
    /\ edges # {}
    /\ node_id \in DOMAIN peer_reachable_at
    /\ \E e \in edges : \E p \in {e.key[1], e.key[2]} :
          /\ p \in DOMAIN peer_reachable_at
          /\ peer_reachable_at[p] < LastPass
          /\ peer_reachable_at[p] = LastPass - config.prune_unreachable_peers_after

\* ---------------------------------------------------------------- C34
\* The valid Active edges that can arrive at time t.
ActiveEdges(t) == {e \in ValidEdges(t) : edge_type(e) = "Active"}

\* The sets of them with distinct keys.
DistinctKeySets(t) ==
    {S \in SUBSET ActiveEdges(t) : S # {} /\ \A e \in S : \A x \in S : x.key = e.key => x = e}

\* The orders the edges of S can be delivered in.
Orders(S) ==
    {o \in [1..Cardinality(S) -> S] :
        \A i \in DOMAIN o : \A j \in DOMAIN o : o[i] = o[j] => i = j}

\* Only Active edges were delivered so far: E and the store hold no other.
OnlyActiveSeen ==
    \A e \in edges \cup UNION {store[p] : p \in Peers} : edge_type(e) = "Active"

\* Only Active edges were seen, there is no age pruning and no unreliable
\* peer, and no peer of R was last reached more than
\* prune_unreachable_peers_after ago.
NothingElapsed ==
    /\ OnlyActiveSeen
    /\ config.prune_edges_after = None
    /\ unreliable_peers = {}
    /\ \A p \in DOMAIN peer_reachable_at :
          peer_reachable_at[p] >= now - config.prune_unreachable_peers_after

Delivered(o) ==
    deliver([inner |-> Inner, next_hops |-> <<>>], config, now, o)

SameOutcome(o1, o2) ==
    /\ Delivered(o1).inner.edges = Delivered(o2).inner.edges
    /\ Delivered(o1).next_hops = Delivered(o2).next_hops

\* C34: a set of valid Active edges with distinct keys, delivered one edge
\* per pass without age pruning, unreliable peers or elapsed time, leaves the
\* same E and returns the same next hops from its last pass in every order
\* of delivery, from the empty table and from every table and store that
\* Active edges alone have led to.
C34_OrderIndependent ==
    NothingElapsed =>
        \A S \in DistinctKeySets(now) :
            \A o1 \in Orders(S) : \A o2 \in Orders(S) : SameOutcome(o1, o2)

\* An Active edge of two other peers was delivered before and is spilled to
\* the store; it is back in E, with next hops to both peers, once the two
\* edges of the local node have been delivered, in either order.
C34_Witness ==
    /\ NothingElapsed
    /\ edges = {}
    /\ \E p \in Peers : store[p] # {}
    /\ \E S \in DistinctKeySets(now) : \E o \in Orders(S) :
          /\ Len(o) = 2
          /\ \A i \in DOMAIN o : node_id \in {o[i].key[1], o[i].key[2]}
          /\ Cardinality(Delivered(<<o[1]>>).inner.edges) = 2
          /\ Cardinality(Delivered(o).inner.edges) = 3
          /\ Cardinality(Delivered(<<o[2], o[1]>>).inner.edges) = 3
          /\ DOMAIN Delivered(o).next_hops = Peers \ {node_id}

\* ---------------------------------------------------------------- C35
Submitted == call.pc = "submitted"

\* A call was served.
Served1 == call.queued < NumCallers

ProposedWithoutNonce == ret' # ret /\ ret'.with_nonce = None

ReturnsActive ==
    /\ ret' # ret
    /\ ret' # <<>>
    /\ ret'.out.result = "Ok"
    /\ edge_type(ret'.built) = "Active"

\* The snapshot loaded right after the return holds the key of the returned
\* edge with at least its nonce.
SnapshotHolds ==
    \E e \in snapshot' : e.key = ret'.built.key /\ e.nonce >= ret'.built.nonce

\* The snapshot holds no edge of the key, and the store holds a Removed edge
\* of the key with a higher nonce under the peer.
HigherTombstoneStored ==
    /\ \A e \in snapshot' : e.key # ret'.built.key
    /\ \E e \in pop_component_edges(store', ret'.built.key[2]) :
          /\ e.key = ret'.built.key
          /\ edge_type(e) = "Removed"
          /\ e.nonce > ret'.built.nonce

SetFailed == IsSet /\ ret # "Ok"

\* C38: a Registers::set that returns an error, MemoryAccessViolation or the
\* gas counter's, leaves every register, the targeted one included, as it
\* was before the call.
C38_FailedSetKeepsRegisters == SetFailed => registers = call.before

\* ---------------------------------------------------------------- C39
\* C39: after any sequence of Registers::set calls the sum over the stored
\* registers of 8 + data length is at most registers_memory_limit.
C39_UsageWithinLimit == usage(registers) <= config.registers_memory_limit

\* ---------------------------------------------------------------- C40
\* A run has scheduled the next one.
HasRun == ret.runs > 0

\* The delay of a run is the interval it was given, or the initial duration
\* when it resets, and the next run is given that delay times the ratio,
\* capped.
BackoffStep ==
    HasRun =>
        /\ ret.delay \in {ret.given, MONITOR_PEERS_INITIAL_DURATION}
        /\ call.interval = min(config.monitor_peers_max_period, backoff(ret.delay))

\* The delay is reset at most once, and started_connect_attempts never goes
\* back to false.
ResetOnce ==
    /\ [](ret.resets <= 1)
    /\ [](ret.resets = 1 => call.started_connect_attempts)
    /\ [][call.started_connect_attempts => call'.started_connect_attempts]_vars

\* Every delay scheduled after the first is at most max_interval.
DelayCapped == ret.runs = 2 => ret.delay <= config.monitor_peers_max_period

ReachesMax == <>[](HasRun /\ ret.delay = config.monitor_peers_max_period)

\* Every delay is at most max_interval, except the delay of the first run and
\* of the run that resets it, which is default_interval.
DelayCappedOrDefault ==
    HasRun =>
        \/ ret.delay <= config.monitor_peers_max_period
        \/ /\ ret.delay = MONITOR_PEERS_INITIAL_DURATION
           /\ ret.runs = 1 \/ ~ret.was_started

====
